---- MODULE Spec2Model ----
(***************************************************************************)
(* State-machine model of the wallet visualizer's canvas renderer:         *)
(* createPlanets / projectOrbitPoint / drawPlanets (canvas/planets.ts),    *)
(* drawOrbits (canvas/orbits.ts), createShips / updateShips                *)
(* (canvas/ships.ts) and the scene controller (canvas/renderer.ts).        *)
(*                                                                         *)
(* JavaScript numbers are modelled in fixed point:                         *)
(*   angles            micro-radians                                       *)
(*   sin / cos         thousandths                                         *)
(*   screen positions  tenths of a pixel                                   *)
(*   orbit radii       1/RadScale pixel (exact for every batch size)       *)
(*   zoom, progress    ten-thousandths                                     *)
(*   alpha             hundredths                                          *)
(*   Math.random()     thousandths, drawn from a small set                 *)
(***************************************************************************)
EXTENDS Integers, Sequences, FiniteSets, TLC

VARIABLES
    width, height, centerX, centerY,  \* RendererState.width/height/centerX/centerY
    planets,          \* RendererState.planets
    ships,            \* RendererState.ships
    time,             \* RendererState.time, in frames (0.016 each) after the one
                      \* that startRenderLoop ran at the mount
    mouseX, mouseY,   \* RendererState.mouseX / mouseY
    hoveredPlanet,    \* RendererState.hoveredPlanet (a planet's identity or Null)
    zoom, tiltX, rotationY,           \* the camera
    disabledChains,   \* RendererState.disabledChains
    trailsEnabled,    \* RendererState.trailsEnabled
    gen,              \* number of planet batches allocated so far (object identity)
    drawnRings,       \* what the last drawOrbits call stroked (planet identities)
    drawnPlanets,     \* what the last drawPlanets call painted, in paint order
    isDragging, didDrag,              \* RendererState.isDragging; setupInteraction's didDrag
    dragStartX, dragStartY, dragStartTiltX, dragStartRotationY,
    events,           \* number of input events handled so far
    lastOp,           \* the handler that ran last
    clicks,           \* the arguments of the calls of state.onClickPlanet, in order
    hovers,           \* the arguments of the calls of onHover, in order
    gesture,          \* the pointer positions of the gesture in progress: the
                      \* primary-button press, then the moves since
    timelineRange,    \* RendererState.timelineRange: <<start, end>> or Null
    timelineProgress, \* RendererState.timelineProgress (ten-thousandths, or
                      \* Undefined)
    drawnShips,       \* the ships the last drawShips call drew (positions in ships)
    frameSteps,       \* the steps the last run of render performed, in order
    loading,          \* RendererState.loading
    bgLoaded,         \* RendererState.bgLoaded
    dpr,              \* RendererState.dpr, in hundredths
    offscreenCanvas,  \* RendererState.offscreenCanvas: "canvas" (the main canvas
                      \* itself) or "offscreen"
    postProcessor,    \* RendererState.postProcessor: the sizes of its bloom and
                      \* depth-of-field targets, or Null
    animationId,      \* RendererState.animationId (a registration or NoFrame)
    pending,          \* the registrations of render with requestAnimationFrame
                      \* that have neither run nor been cancelled
    timelineProgressRef,  \* App's timelineProgressRef.current, in ten-thousandths
    timelineDraggingRef,  \* App's timelineDraggingRef.current
    interactionsState,    \* App's interactions state (the records shown)
    submits,          \* the handleSubmit calls that are awaiting their fetches
    gl                \* the state of the canvas's WebGL context, or Null

vars == <<width, height, centerX, centerY, planets, ships, time, mouseX, mouseY,
          hoveredPlanet, zoom, tiltX, rotationY, disabledChains, trailsEnabled,
          gen, drawnRings, drawnPlanets, isDragging, didDrag, dragStartX, dragStartY,
          dragStartTiltX, dragStartRotationY, events, lastOp, clicks, hovers,
          gesture, timelineRange, timelineProgress, drawnShips, frameSteps, loading,
          bgLoaded, dpr, offscreenCanvas, postProcessor, animationId, pending,
          timelineProgressRef, timelineDraggingRef, interactionsState, submits, gl>>

\* no planet: identities are pairs, so the empty tuple is none of them
Null == <<>>

\* a timeline progress that was not supplied
Undefined == -1

\* animationId null: registrations are positive
NoFrame == 0

-----------------------------------------------------------------------------
(* Bounds of the model *)

MaxBodies == 3       \* records per batch
MaxTime == 2         \* frames per behaviour of the scene specifications
MaxStills == 1       \* frames per behaviour of the creation and pointer specifications
MaxEvents == 3       \* input events per behaviour of the scene specifications
MaxShipSteps == 36   \* frames per behaviour of the ships specification
MaxToggles == 2      \* trails toggles per behaviour of the ships specification
MaxWheel == 40       \* wheel notches per behaviour of the input specification
MaxGesture == 4      \* input events per behaviour of the click and camera specifications
MaxTicks == 4        \* ticks and pointer events per behaviour of the timeline's progress
MaxSubmits == 2      \* submits per behaviour of the submit specification

-----------------------------------------------------------------------------
(* Fixed-point arithmetic *)

Abs(a) == IF a < 0 THEN -a ELSE a
Min2(a, b) == IF a < b THEN a ELSE b
Max2(a, b) == IF a > b THEN a ELSE b

\* the element of a one-element set; in Only({e(x) : x \in {v}}) the value v is
\* computed once, whatever e does with it
Only(S) == CHOOSE r \in S : TRUE

\* a / b rounded to the nearest integer, halves up (b > 0)
RoundDiv(a, b) == (2 * a + b) \div (2 * b)

RECURSIVE Gcd(_, _)
Gcd(a, b) == IF b = 0 THEN a ELSE Gcd(b, a % b)

RECURSIVE LcmUpTo(_)
LcmUpTo(n) == IF n <= 1 THEN 1 ELSE LET l == LcmUpTo(n - 1) IN (l * n) \div Gcd(l, n)

\* orbit radii are kept in 1/RadScale pixel: hundredths, divided once more by every
\* possible (N - 1), so that (maxOrbit - minOrbit) / (N - 1) is exact
RadDen == LcmUpTo(MaxBodies - 1)
RadScale == 100 * RadDen

TwoPi == 6283185      \* Math.PI * 2 in micro-radians
TwoPiMilli == 6283    \* Math.PI * 2 in milli-radians
PiMilli == 3142
HalfPiMilli == 1571

\* sin on [-pi/2, pi/2] by its Taylor series; x in milli-radians, result in thousandths
SinSeries(x) ==
    LET x2 == RoundDiv(x * x, 1000)
        x3 == RoundDiv(x2 * x, 1000)
        x5 == RoundDiv(x3 * x2, 1000)
        x7 == RoundDiv(x5 * x2, 1000)
        x9 == RoundDiv(x7 * x2, 1000)
        s  == RoundDiv(362880 * x - 60480 * x3 + 3024 * x5 - 72 * x7 + x9, 362880)
    IN  Max2(-1000, Min2(1000, s))

\* sin of m milli-radians, 0 <= m <= TwoPiMilli
SinMilli(m) ==
    IF m <= HalfPiMilli THEN SinSeries(m)
    ELSE IF m <= PiMilli + HalfPiMilli THEN SinSeries(PiMilli - m)
    ELSE SinSeries(m - TwoPiMilli)

SinTable == [m \in 0..TwoPiMilli |-> SinMilli(m)]

\* Math.sin / Math.cos of an angle in micro-radians, in thousandths
Sin(a) == SinTable[RoundDiv(a % TwoPi, 1000) % (TwoPiMilli + 1)]
Cos(a) == Sin(a + 1570796)


-----------------------------------------------------------------------------
(* canvas/planets.ts *)

\* CHAIN_PLANES: tiltX and tiltZ of each chain's orbital plane, in micro-radians
CHAIN_PLANES ==
    [c \in {"eth-mainnet", "base-mainnet", "bsc-mainnet", "matic-mainnet",
            "polygon-mainnet", "arbitrum-mainnet", "optimism-mainnet",
            "avalanche-mainnet", "fantom-mainnet"} |->
        CASE c = "eth-mainnet"       -> [tiltX |-> 0,       tiltZ |-> 0]
          [] c = "base-mainnet"      -> [tiltX |-> 1193805, tiltZ |-> 0]
          [] c = "bsc-mainnet"       -> [tiltX |-> 785398,  tiltZ |-> 1570796]
          [] c = "matic-mainnet"     -> [tiltX |-> 1099557, tiltZ |-> 1036726]
          [] c = "polygon-mainnet"   -> [tiltX |-> 1099557, tiltZ |-> 1036726]
          [] c = "arbitrum-mainnet"  -> [tiltX |-> 628319,  tiltZ |-> 2104867]
          [] c = "optimism-mainnet"  -> [tiltX |-> 1319469, tiltZ |-> 534071]
          [] c = "avalanche-mainnet" -> [tiltX |-> 471239,  tiltZ |-> 2607522]
          [] c = "fantom-mainnet"    -> [tiltX |-> 942478,  tiltZ |-> 1570796]]

DEFAULT_PLANE == [tiltX |-> 314159, tiltZ |-> 0]

getChainPlane(chain) ==
    IF chain \in DOMAIN CHAIN_PLANES THEN CHAIN_PLANES[chain] ELSE DEFAULT_PLANE

\* Math.max(...interactions.map(w => w.txCount))
RECURSIVE MaxTxCount(_)
MaxTxCount(interactions) ==
    IF Len(interactions) = 1 THEN interactions[1].txCount
    ELSE Max2(interactions[1].txCount, MaxTxCount(Tail(interactions)))

\* the span divided by the number of records
OrbitStepByCount(n, h) ==
    (Min2(42 * h * RadDen, 500 * RadScale) - 100 * RadScale) \div n

\* orbitStep of createPlanets, in 1/RadScale pixel
OrbitStep(n, h) ==
    LET minOrbit == 100 * RadScale
        maxOrbit == Min2(42 * h * RadDen, 500 * RadScale)
    IN  IF n > 1 THEN (maxOrbit - minOrbit) \div (n - 1) ELSE 0

\* orbitRadius of the body of rank i (0-based)
OrbitRadius(i, n, h) == 100 * RadScale + OrbitStep(n, h) * i

\* an angular speed that leaves the rank out
AngularSpeedUnranked(i, r) == 150000 + r * 100

\* angularSpeed of the body of rank i, in micro-radians per second; r is the
\* Math.random() draw in thousandths
AngularSpeed(i, r) == (150000 + r * 100) \div (i + 1)

\* a pixel length r (1/RadScale pixel) times a sin/cos value, in tenths of a pixel
Scaled(r, trig) == RoundDiv(r * trig, 100 * RadScale)

\* createPlanets: rnd[k] holds the two Math.random() draws of the k-th record
\* (a: angle, s: angular speed); g identifies the batch
createPlanets(interactions, rnd, cx, cy, h, g) ==
    LET n == Len(interactions)
    IN  [k \in 1..n |->
            LET i == k - 1
                interaction == interactions[k]
                orbitRadius == OrbitRadius(i, n, h)
                angle == (i * TwoPi) \div n + rnd[k].a * 500
                maxTx == MaxTxCount(interactions)
                plane == getChainPlane(interaction.primaryChain)
            IN  [id |-> <<g, k>>,
                 interaction |-> interaction,
                 orbitRadius |-> orbitRadius,
                 angle |-> angle,
                 angularSpeed |-> AngularSpeed(i, rnd[k].s),
                 size |-> 60 + RoundDiv(180 * interaction.txCount,
                                        IF maxTx = 0 THEN 1 ELSE maxTx),
                 x |-> cx + Scaled(orbitRadius, Cos(angle)),
                 y |-> cy + Scaled(orbitRadius, Sin(angle)),
                 z |-> 0,
                 hovered |-> FALSE,
                 planeTiltX |-> plane.tiltX,
                 planeTiltZ |-> plane.tiltZ]]

\* a projection that mirrors the ring in the horizontal axis
ProjectMirrored(angle, orbitRadius, planeTiltX, planeTiltZ, cx, cy, cam) ==
    [x |-> cx + Scaled(orbitRadius, Cos(angle)),
     y |-> cy - Scaled(orbitRadius, Sin(angle)),
     z |-> 0]

\* one rotation step of projectOrbitPoint: (u, v) turned by the angle t
RotU(u, v, t) == RoundDiv(u * Cos(t) - v * Sin(t), 1000)
RotV(u, v, t) == RoundDiv(u * Sin(t) + v * Cos(t), 1000)

\* projectOrbitPoint; camera is [tiltX, rotationY]; the result is in tenths of a pixel
projectOrbitPoint(angle, orbitRadius, planeTiltX, planeTiltZ, cx, cy, cam) ==
    LET x0 == RoundDiv(Cos(angle) * orbitRadius, 1000)
        y0 == RoundDiv(Sin(angle) * orbitRadius, 1000)
        z0 == 0
        \* rotate around X by planeTiltX
        y1 == RotU(y0, z0, planeTiltX)
        z1 == RotV(y0, z0, planeTiltX)
        \* rotate around Z by planeTiltZ
        x2 == RotU(x0, y1, planeTiltZ)
        y2 == RotV(x0, y1, planeTiltZ)
        \* camera Y rotation
        x3 == RotU(x2, z1, cam.rotationY)
        z3 == RotV(x2, z1, cam.rotationY)
        \* camera X tilt
        y4 == RotU(y2, z3, cam.tiltX)
        z4 == RotV(y2, z3, cam.tiltX)
    IN  [x |-> cx + Scaled(x3, 1000),
         y |-> cy + Scaled(y4, 1000),
         z |-> Scaled(z4, 1000)]

\* a filter that disables nothing
NeverDisabled(chain, disabled) == FALSE

\* state.disabledChains.has(chain)
IsDisabled(chain, disabled) == chain \in disabled

\* the update loop of drawPlanets: every body advances and is re-projected
MovePlanet(planet, cx, cy, cam) ==
    LET angle == planet.angle + RoundDiv(planet.angularSpeed * 16, 1000)
        proj == projectOrbitPoint(angle, planet.orbitRadius, planet.planeTiltX,
                                  planet.planeTiltZ, cx, cy, cam)
    IN  [planet EXCEPT !.angle = angle, !.x = proj.x, !.y = proj.y, !.z = proj.z]

\* the comparator that puts the nearest body first
CompareNearestFirst(a, b) == a.z - b.z

\* the comparator of sorted.sort((a, b) => b.z - a.z)
Compare(a, b) == b.z - a.z

\* Array.prototype.sort is stable: the place of ps[k] in the sorted array is one
\* more than the number of elements the comparator puts before it, an element it
\* calls equal staying behind the ones that preceded it
SortedPlace(ps, k) ==
    1 + Cardinality({j \in 1..Len(ps) :
                        \/ Compare(ps[j], ps[k]) < 0
                        \/ Compare(ps[j], ps[k]) = 0 /\ j < k})

SortByDepth(ps) ==
    [r \in 1..Len(ps) |-> ps[CHOOSE k \in 1..Len(ps) : SortedPlace(ps, k) = r]]

\* the draw loop of drawPlanets: the identities of the bodies painted, in paint
\* order; a body of a disabled chain is skipped
PaintOrder(moved, disabled) ==
    LET shown == SelectSeq(SortByDepth(moved),
                     LAMBDA p : ~IsDisabled(p.interaction.primaryChain, disabled))
    IN  [k \in 1..Len(shown) |-> shown[k].id]

\* drawPlanets: the bodies after the update loop, and the bodies painted
drawPlanets(ps, cx, cy, cam, disabled) ==
    Only({[planets |-> moved, drawn |-> PaintOrder(moved, disabled)] :
            moved \in {[k \in 1..Len(ps) |-> MovePlanet(ps[k], cx, cy, cam)]}})

-----------------------------------------------------------------------------
(* canvas/orbits.ts *)

\* Number.prototype.toFixed(1) of a radius, as the number of tenths
ToFixed1(r) == RoundDiv(r * 10, RadScale)

\* Number.prototype.toFixed(3) of an angle, as the number of thousandths
ToFixed3(a) == RoundDiv(a, 1000)

\* a key made of the plane alone
RingKeyOfPlane(planet) == <<ToFixed3(planet.planeTiltX), ToFixed3(planet.planeTiltZ)>>

\* the deduplication key of drawOrbits
RingKey(planet) ==
    <<ToFixed1(planet.orbitRadius), ToFixed3(planet.planeTiltX),
      ToFixed3(planet.planeTiltZ)>>

\* the loop of drawOrbits from body k on: keys is the `drawn` set, out the
\* identities of the bodies whose ring has been stroked
RECURSIVE OrbitLoop(_, _, _, _, _)
OrbitLoop(ps, k, keys, out, disabled) ==
    IF k > Len(ps) THEN out
    ELSE LET key == RingKey(ps[k])
         IN  IF key \in keys THEN OrbitLoop(ps, k + 1, keys, out, disabled)
             ELSE IF IsDisabled(ps[k].interaction.primaryChain, disabled)
                  THEN OrbitLoop(ps, k + 1, keys \cup {key}, out, disabled)
                  ELSE OrbitLoop(ps, k + 1, keys \cup {key},
                                 Append(out, ps[k].id), disabled)

drawOrbits(ps, disabled) == OrbitLoop(ps, 1, {}, <<>>, disabled)

-----------------------------------------------------------------------------
(* canvas/ships.ts *)

\* the ships createShips pushes for one planet: min(sentCount, 3) outbound, then
\* min(receivedCount, 3) inbound; srnd[j] holds the two Math.random() draws of the
\* j-th ship of the whole batch (p: progress, v: speed), base ships precede these
\* new Date(iso).getTime(), in milliseconds, of the timestamps of the records
DateTime(iso) ==
    CASE iso = "1970-01-01T00:00:00.050Z" -> 50
      [] iso = "1970-01-01T00:00:00.100Z" -> 100
      [] iso = "1970-01-01T00:00:00.130Z" -> 130
      [] iso = "1970-01-01T00:00:00.250Z" -> 250

\* the fraction of the range at which a first interaction falls, not clamped
ActivationUnclamped(firstDate, range) ==
    IF range = Null THEN 0
    ELSE IF range[2] - range[1] > 0
         THEN RoundDiv((firstDate - range[1]) * 10000, range[2] - range[1])
         ELSE 0

\* activationTime of createShips
ActivationTime(firstDate, range) ==
    IF range = Null THEN 0
    ELSE IF range[2] - range[1] > 0
         THEN Max2(0, Min2(10000, RoundDiv((firstDate - range[1]) * 10000,
                                           range[2] - range[1])))
         ELSE 0

\* a ship for every transaction
ShipQuotaUncapped(count) == count

\* Math.min(count, 3): the ships of one direction that a body gets
ShipQuota(count) == Min2(count, 3)

ShipsOfPlanet(planet, cx, cy, srnd, base, range) ==
    LET outboundCount == ShipQuota(planet.interaction.sentCount)
        inboundCount == ShipQuota(planet.interaction.receivedCount)
        activationTime ==
            ActivationTime(IF range = Null THEN 0
                           ELSE DateTime(planet.interaction.firstInteraction), range)
    IN  [j \in 1..(outboundCount + inboundCount) |->
            LET r == srnd[((base + j - 1) % Len(srnd)) + 1]
                out == j <= outboundCount
            IN  [fromX |-> IF out THEN cx ELSE planet.x,
                 fromY |-> IF out THEN cy ELSE planet.y,
                 toX |-> IF out THEN planet.x ELSE cx,
                 toY |-> IF out THEN planet.y ELSE cy,
                 progress |-> r.p * 10,
                 speed |-> 30 + (r.v * 40) \div 1000,
                 trail |-> <<>>,
                 direction |-> IF out THEN "outbound" ELSE "inbound",
                 chain |-> planet.interaction.primaryChain,
                 activationTime |-> activationTime]]

RECURSIVE CreateShipsFrom(_, _, _, _, _, _, _)
CreateShipsFrom(ps, k, cx, cy, srnd, range, out) ==
    IF k > Len(ps) THEN out
    ELSE CreateShipsFrom(ps, k + 1, cx, cy, srnd, range,
                         out \o ShipsOfPlanet(ps[k], cx, cy, srnd, Len(out), range))

createShips(ps, cx, cy, srnd, range) == CreateShipsFrom(ps, 1, cx, cy, srnd, range, <<>>)

\* the progress step without the wrap
AdvanceProgressUnwrapped(progress, speed) == progress + speed

\* ship.progress += ship.speed, wrapping to 0 once it exceeds 1
AdvanceProgress(progress, speed) ==
    IF progress + speed > 10000 THEN 0 ELSE progress + speed

\* the ship's endpoints aimed at planet (or left alone when there is no planet)
Aim(ship, ps, idx, cx, cy) ==
    IF Len(ps) = 0 THEN ship
    ELSE LET planet == ps[(idx % Len(ps)) + 1]
         IN  IF ship.direction = "outbound"
             THEN [ship EXCEPT !.fromX = cx, !.fromY = cy,
                               !.toX = planet.x, !.toY = planet.y]
             ELSE [ship EXCEPT !.fromX = planet.x, !.fromY = planet.y,
                               !.toX = cx, !.toY = cy]

\* one coordinate of the quadratic bezier at t (ten-thousandths); perp is the
\* perpendicular offset of the control point
Bezier(from, to, perp, t) ==
    LET control == RoundDiv(from + to, 2) + perp
        a == RoundDiv((10000 - t) * (10000 - t), 10000)
        b == RoundDiv(2 * (10000 - t) * t, 10000)
        c == RoundDiv(t * t, 10000)
    IN  RoundDiv(a * from + b * control + c * to, 10000)

\* the head position of a ship on its curve
HeadOf(ship) ==
    LET dx == ship.toX - ship.fromX
        dy == ship.toY - ship.fromY
    IN  [x |-> Bezier(ship.fromX, ship.toX, RoundDiv(-dy * 15, 100), ship.progress),
         y |-> Bezier(ship.fromY, ship.toY, RoundDiv(dx * 15, 100), ship.progress)]

\* a fade of 0.02 per step
FadeTrailSlower(trail) == [k \in 1..Len(trail) |-> [trail[k] EXCEPT !.alpha = @ - 2]]

\* point.alpha -= 0.03 for every point of the trail
FadeTrail(trail) == [k \in 1..Len(trail) |-> [trail[k] EXCEPT !.alpha = @ - 3]]

\* a filter that removes no point
KeepTrail(trail) == trail

\* ship.trail.filter(p => p.alpha > 0)
LiveTrail(trail) == SelectSeq(trail, LAMBDA p : p.alpha > 0)

\* the trail recording that ignores the toggle
RecordTrailAlways(trail, x, y, enabled) ==
    LiveTrail(FadeTrail(Append(trail, [x |-> x, y |-> y, alpha |-> 100])))

\* the trail recording of updateShips for a head at (x, y)
RecordTrail(trail, x, y, enabled) ==
    IF enabled
    THEN LiveTrail(FadeTrail(Append(trail, [x |-> x, y |-> y, alpha |-> 100])))
    ELSE <<[x |-> x, y |-> y, alpha |-> 100]>>

\* the body of the loop of updateShips for the ship at 0-based position planetIdx
UpdateShip(ship, ps, planetIdx, cx, cy, enabled) ==
    LET wrapped == ship.progress + ship.speed > 10000
        s1 == [ship EXCEPT !.progress = AdvanceProgress(ship.progress, ship.speed),
                           !.trail = IF wrapped THEN <<>> ELSE @]
        s2 == Aim(s1, ps, planetIdx, cx, cy)
        head == HeadOf(s2)
    IN  [s2 EXCEPT !.trail = RecordTrail(s1.trail, head.x, head.y, enabled)]

\* number of ships among the first k with the given direction
RECURSIVE CountDirection(_, _, _)
CountDirection(ss, k, dir) ==
    IF k = 0 THEN 0
    ELSE CountDirection(ss, k - 1, dir) + (IF ss[k].direction = dir THEN 1 ELSE 0)

reassociateShips(ss, ps, cx, cy) ==
    [k \in 1..Len(ss) |->
        Aim(ss[k], ps, CountDirection(ss, k - 1, ss[k].direction), cx, cy)]

updateShips(ss, ps, cx, cy, enabled) ==
    reassociateShips([k \in 1..Len(ss) |-> UpdateShip(ss[k], ps, k - 1, cx, cy, enabled)],
                     ps, cx, cy)

\* the ships drawShips draws: those it does not skip
drawShips(ss, disabled, progress) ==
    {k \in 1..Len(ss) :
        /\ ~(ss[k].chain \in disabled)
        /\ ~(progress # Undefined /\ progress < ss[k].activationTime)}

-----------------------------------------------------------------------------
(* canvas/renderer.ts *)

\* screenToWorld, one coordinate
screenToWorld(s, c, z) == RoundDiv((s - c) * 10000, z) + c

\* dx * dx + dy * dy < r * r, the form Math.sqrt(dx*dx + dy*dy) < r takes on integers
DistLess(dx, dy, r) == r > 0 /\ dx * dx + dy * dy < r * r

DistSq(dx, dy) == dx * dx + dy * dy

\* a body pass in which the first match wins
RECURSIVE HitBodiesFirst(_, _, _, _, _, _)
HitBodiesFirst(ps, k, wx, wy, disabled, found) ==
    IF k > Len(ps) THEN found
    ELSE IF /\ found = Null
            /\ ~IsDisabled(ps[k].interaction.primaryChain, disabled)
            /\ DistLess(wx - ps[k].x, wy - ps[k].y, ps[k].size + 120)
         THEN HitBodiesFirst(ps, k + 1, wx, wy, disabled, ps[k].id)
         ELSE HitBodiesFirst(ps, k + 1, wx, wy, disabled, found)

\* pass 1 of the hit test from body k on; found is the body found so far
RECURSIVE HitBodies(_, _, _, _, _, _)
HitBodies(ps, k, wx, wy, disabled, found) ==
    IF k > Len(ps) THEN found
    ELSE IF IsDisabled(ps[k].interaction.primaryChain, disabled)
         THEN HitBodies(ps, k + 1, wx, wy, disabled, found)
         ELSE IF DistLess(wx - ps[k].x, wy - ps[k].y, ps[k].size + 120)
              THEN HitBodies(ps, k + 1, wx, wy, disabled, ps[k].id)
              ELSE HitBodies(ps, k + 1, wx, wy, disabled, found)

\* the i-th of the 60 sample points of a body's ring
RingSample(planet, i, cx, cy, cam) ==
    projectOrbitPoint((i * TwoPi) \div 60, planet.orbitRadius, planet.planeTiltX,
                      planet.planeTiltZ, cx, cy, cam)

\* an iteration of pass 2 in which a sample as close as the closest so far wins
SampleStepLastWins(planet, i, wx, wy, cx, cy, cam, thr, best) ==
    Only({Only({IF d2 < thr * thr /\ (best.closest < 0 \/ d2 <= best.closest)
                THEN [found |-> planet.id, closest |-> d2]
                ELSE best :
                    d2 \in {DistSq(wx - pt.x, wy - pt.y)}}) :
            pt \in {RingSample(planet, i, cx, cy, cam)}})

\* one iteration of the inner loop of pass 2: sample i of a body's ring against
\* best = [found, closest], the body found so far and closestDist squared
\* (-1: Infinity)
SampleStep(planet, i, wx, wy, cx, cy, cam, thr, best) ==
    Only({Only({IF d2 < thr * thr /\ (best.closest < 0 \/ d2 < best.closest)
                THEN [found |-> planet.id, closest |-> d2]
                ELSE best :
                    d2 \in {DistSq(wx - pt.x, wy - pt.y)}}) :
            pt \in {RingSample(planet, i, cx, cy, cam)}})

\* the inner loop of pass 2 over the samples lo .. hi-1, in order (the range is
\* halved to keep the evaluation shallow)
RECURSIVE HitSamples(_, _, _, _, _, _, _, _, _, _)
HitSamples(planet, lo, hi, wx, wy, cx, cy, cam, thr, best) ==
    IF hi - lo = 1 THEN SampleStep(planet, lo, wx, wy, cx, cy, cam, thr, best)
    ELSE Only({HitSamples(planet, (lo + hi) \div 2, hi, wx, wy, cx, cy, cam, thr, left) :
                 left \in {HitSamples(planet, lo, (lo + hi) \div 2, wx, wy, cx, cy,
                                      cam, thr, best)}})

\* the outer loop of pass 2 from body k on
RECURSIVE HitRings(_, _, _, _, _, _, _, _, _, _)
HitRings(ps, k, wx, wy, cx, cy, cam, disabled, thr, best) ==
    IF k > Len(ps) THEN best
    ELSE IF IsDisabled(ps[k].interaction.primaryChain, disabled)
         THEN HitRings(ps, k + 1, wx, wy, cx, cy, cam, disabled, thr, best)
         ELSE Only({HitRings(ps, k + 1, wx, wy, cx, cy, cam, disabled, thr, next) :
                      next \in {HitSamples(ps[k], 0, 60, wx, wy, cx, cy, cam, thr,
                                           best)}})

\* orbitThreshold = 10 / state.zoom, in tenths of a pixel
OrbitThreshold(z) == RoundDiv(1000000, z)

\* the hit test of render: the identity of the body found, or Null
HitTest(ps, sx, sy, cx, cy, z, cam, disabled) ==
    Only({Only({IF body # Null THEN body
                ELSE HitRings(ps, 1, w[1], w[2], cx, cy, cam, disabled,
                              OrbitThreshold(z),
                              [found |-> Null, closest |-> -1]).found :
                    body \in {HitBodies(ps, 1, w[1], w[2], disabled, Null)}}) :
            w \in {<<screenToWorld(sx, cx, z), screenToWorld(sy, cy, z)>>}})

\* state.zoom * zoomFactor, zoomFactor being 1.08 or 1 / 1.08
ZoomScaled(z, zoomIn) ==
    IF zoomIn THEN RoundDiv(z * 108, 100) ELSE RoundDiv(z * 100, 108)

\* the wheel step without its limits
WheelZoomUnclamped(z, zoomIn) == ZoomScaled(z, zoomIn)

\* the zoom the wheel listener stores: Math.max(0.3, Math.min(8, zoom * zoomFactor))
WheelZoom(z, zoomIn) == Max2(3000, Min2(80000, ZoomScaled(z, zoomIn)))

\* the mousemove listener's didDrag after a move of (dx, dy) from the press point
StrayedNow(dragged, dx, dy) == Abs(dx) > 30 \/ Abs(dy) > 30
Strayed(dragged, dx, dy) == dragged \/ Abs(dx) > 30 \/ Abs(dy) > 30

\* a drag that stops at a quarter turn either way
TurnedClamped(start, d) == Max2(-1570796, Min2(1570796, start + d * 500))

\* the mousemove listener's angle: the angle at the press plus 0.005 rad per pixel
\* (d in tenths of a pixel, angles in micro-radians)
Turned(start, d) == start + d * 500

\* the test of the mouseup listener: a drag that never left the press point
ClickFires(dragging, dragged) == dragging /\ ~dragged

\* a hovered flag that stays once set
HoveredFlagKept(planet, found) == planet.hovered \/ planet.id = found

\* planet.hovered = planet === found
HoveredFlag(planet, found) == planet.id = found

\* the test at the end of render: the hit-test result is not the recorded body
HoverAlways(found, hovered) == TRUE
HoverChanged(found, hovered) == found # hovered

\* ToInt32 of a number of pixels held in hundredths, then >> k
ShiftRight(px, k) == (px \div 100) \div (2 ^ k)

\* post-processor targets the size of the canvas
TargetsAtFullSize(pw, ph) ==
    <<[w |-> Max2(1, ShiftRight(pw, 0)), h |-> Max2(1, ShiftRight(ph, 0))],
      [w |-> Max2(1, ShiftRight(pw, 0)), h |-> Max2(1, ShiftRight(ph, 0))]>>

\* createPostProcessor for a canvas of pw x ph pixels (hundredths): the sizes of
\* the bloom targets and of the depth-of-field targets
createPostProcessor(pw, ph) ==
    <<[w |-> Max2(1, ShiftRight(pw, 1)), h |-> Max2(1, ShiftRight(ph, 1))],
      [w |-> Max2(1, ShiftRight(pw, 2)), h |-> Max2(1, ShiftRight(ph, 2))]>>

\* the WebGL context before anything was created on it: no program in use, unit 0
\* active, no texture on any unit, the screen as the framebuffer; made counts the
\* post-processors created, passes lists the draw calls of the last
\* applyPostProcessing
GlFresh ==
    [program |-> "none", active |-> 0,
     units |-> <<<<"none", 0>>, <<"none", 0>>, <<"none", 0>>>>,
     framebuffer |-> <<"screen", 0>>,
     sampler |-> [b \in {"bright.u_tex", "blur.u_tex", "comp.u_scene", "comp.u_bloom",
                         "comp.u_dof"} |-> 0],
     dir |-> [axis |-> "none", scale |-> 0, size |-> 1],
     made |-> 0, passes |-> <<>>]

\* a texture or a framebuffer of the current post-processor
GlObject(g, role) == <<role, g.made>>

\* the GL context after createPostProcessor: the programs are new (their samplers
\* read unit 0), the texture made last (dofB's) is on the active unit, makeFBO
\* left the screen as the framebuffer
GlCreated(g) ==
    [g EXCEPT !.made = g.made + 1,
              !.units[g.active + 1] = <<"dofB", g.made + 1>>,
              !.framebuffer = <<"screen", 0>>,
              !.sampler = [b \in DOMAIN g.sampler |-> 0],
              !.passes = <<>>]

glUseProgram(g, prog) == [g EXCEPT !.program = prog]
glActiveTexture(g, unit) == [g EXCEPT !.active = unit]

\* a bindTexture that ignores the active unit
BindToUnitZero(g, role) == [g EXCEPT !.units[1] = GlObject(g, role)]

\* gl.bindTexture(gl.TEXTURE_2D, tex): onto the active unit
glBindTexture(g, role) == [g EXCEPT !.units[g.active + 1] = GlObject(g, role)]

\* gl.uniform1i(location, unit) for a sampler of the program in use
glUniform1i(g, location, unit) == [g EXCEPT !.sampler[location] = unit]

\* gl.uniform2f(pp.blur.u_dir, ...): scale (in tenths) over size along axis
glUniformDir(g, axis, scale, size) ==
    [g EXCEPT !.dir = [axis |-> axis, scale |-> scale, size |-> size]]

\* setTarget: role is an FBO of the post-processor or "screen"
setTarget(g, role) ==
    [g EXCEPT !.framebuffer = IF role = "screen" THEN <<"screen", 0>>
                              ELSE GlObject(g, role)]

\* the samplers of a program
SamplersOf(prog) ==
    CASE prog = "bright" -> <<"bright.u_tex">>
      [] prog = "blur" -> <<"blur.u_tex">>
      [] prog = "comp" -> <<"comp.u_scene", "comp.u_bloom", "comp.u_dof">>

\* drawQuad: one pass of the program in use, reading the textures on the units of
\* its samplers, writing the framebuffer
drawQuad(g) ==
    [g EXCEPT !.passes =
        Append(g.passes,
               [prog |-> g.program,
                reads |-> [s \in 1..Len(SamplersOf(g.program)) |->
                              g.units[g.sampler[SamplersOf(g.program)[s]] + 1]],
                writes |-> g.framebuffer,
                dir |-> IF g.program = "blur" THEN g.dir
                        ELSE [axis |-> "none", scale |-> 0, size |-> 1]])]

\* scale = 1.0 + i * 0.5 of the bloom blur, in tenths
BlurScale(i) == 10 + i * 5

\* the bloom blur loop of applyPostProcessing from iteration i on
RECURSIVE BloomBlur(_, _, _)
BloomBlur(pp, g, i) ==
    IF i >= 3 THEN g
    ELSE LET h1 == glActiveTexture(g, 0)
             h2 == glBindTexture(h1, "bloomA")
             h3 == glUniformDir(h2, "h", BlurScale(i), pp[1].w)
             h4 == drawQuad(setTarget(h3, "bloomB"))
             v1 == glBindTexture(h4, "bloomB")
             v2 == glUniformDir(v1, "v", BlurScale(i), pp[1].h)
             v3 == drawQuad(setTarget(v2, "bloomA"))
         IN  BloomBlur(pp, v3, i + 1)

\* applyPostProcessing on the post-processor pp (the sizes of its targets) and the
\* GL context g
applyPostProcessing(pp, g) ==
    LET \* upload of the canvas to the source texture
        u1 == glBindTexture(glActiveTexture([g EXCEPT !.passes = <<>>], 0), "srcTex")
        \* 1. bright pixels to bloomA
        b1 == glUniform1i(glUseProgram(u1, "bright"), "bright.u_tex", 0)
        b2 == drawQuad(setTarget(glBindTexture(b1, "srcTex"), "bloomA"))
        \* 2. bloom blur
        l1 == glUniform1i(glUseProgram(b2, "blur"), "blur.u_tex", 0)
        l2 == BloomBlur(pp, l1, 0)
        \* 3. depth of field: downsample, then blur
        d1 == glBindTexture(glActiveTexture(l2, 0), "srcTex")
        d2 == drawQuad(setTarget(glUniformDir(d1, "none", 0, 1), "dofA"))
        d3 == glUniformDir(glBindTexture(d2, "dofA"), "h", 15, pp[2].w)
        d4 == drawQuad(setTarget(d3, "dofB"))
        d5 == glUniformDir(glBindTexture(d4, "dofB"), "v", 15, pp[2].h)
        d6 == drawQuad(setTarget(d5, "dofA"))
        \* 4. composite to the screen
        c1 == glUseProgram(d6, "comp")
        c2 == glUniform1i(glBindTexture(glActiveTexture(c1, 0), "srcTex"),
                          "comp.u_scene", 0)
        c3 == glUniform1i(glBindTexture(glActiveTexture(c2, 1), "bloomA"),
                          "comp.u_bloom", 1)
        c4 == glUniform1i(glBindTexture(glActiveTexture(c3, 2), "dofA"),
                          "comp.u_dof", 2)
    IN  drawQuad(setTarget(c4, "screen"))

-----------------------------------------------------------------------------
(* The handlers *)

camera == [tiltX |-> tiltX, rotationY |-> rotationY]

sceneVars == <<planets, ships, time, hoveredPlanet, gen, drawnRings, drawnPlanets,
               drawnShips, frameSteps>>
sizeVars == <<width, height, centerX, centerY>>
dragVars == <<isDragging, didDrag, dragStartX, dragStartY, dragStartTiltX,
              dragStartRotationY>>
cameraVars == <<zoom, tiltX, rotationY>>
toggleVars == <<disabledChains, trailsEnabled>>
callbackVars == <<clicks, hovers>>
timelineVars == <<timelineRange, timelineProgress>>
flagVars == <<loading, bgLoaded>>
gpuVars == <<dpr, offscreenCanvas, postProcessor, gl>>
loopVars == <<animationId, pending>>
appVars == <<timelineProgressRef, timelineDraggingRef, interactionsState, submits>>

\* the App's mount effect: createRenderer, updateSize, setupInteraction and
\* startRenderLoop, on a window of w x h pixels whose canvas gives a WebGL context
\* or none; startRenderLoop has run render on the empty scene and registered it
Created(w, h, webgl) ==
    /\ width = w /\ height = h
    /\ centerX = 5 * w /\ centerY = 5 * h
    /\ planets = <<>> /\ ships = <<>>
    /\ time = 0
    /\ mouseX = 0 /\ mouseY = 0
    /\ hoveredPlanet = Null
    /\ zoom = 10000 /\ tiltX = 350000 /\ rotationY = 0
    /\ isDragging = FALSE /\ didDrag = FALSE
    /\ dragStartX = 0 /\ dragStartY = 0
    /\ dragStartTiltX = 0 /\ dragStartRotationY = 0
    /\ disabledChains = {}
    /\ trailsEnabled = TRUE
    /\ gen = 0
    /\ drawnRings = <<>> /\ drawnPlanets = <<>>
    /\ events = 0
    /\ lastOp = "createRenderer"
    /\ animationId = 1 /\ pending = {1}
    /\ clicks = <<>> /\ hovers = <<>>
    /\ gesture = <<>>
    /\ timelineRange = Null /\ timelineProgress = Undefined
    /\ drawnShips = {}
    /\ frameSteps = <<>>
    /\ loading = FALSE /\ bgLoaded = FALSE
    /\ dpr = 100
    /\ offscreenCanvas = (IF webgl THEN "offscreen" ELSE "canvas")
    /\ postProcessor = (IF webgl THEN createPostProcessor(w * 100, h * 100) ELSE Null)
    /\ gl = (IF webgl THEN GlCreated(GlFresh) ELSE Null)
    /\ timelineProgressRef = 0 /\ timelineDraggingRef = FALSE
    /\ interactionsState = <<>> /\ submits = <<>>

\* what the renderer is given when the App's interactions state becomes the
\* non-empty list interactions: the effect sets state.timelineRange to range, then
\* it calls setInteractions
Shown(interactions, rnd, srnd, range) ==
    LET ps == createPlanets(interactions, rnd, centerX, centerY, height, gen + 1)
    IN  /\ timelineRange' = range
        /\ planets' = ps
        /\ ships' = createShips(ps, centerX, centerY, srnd, range)
        /\ gen' = gen + 1
        /\ interactionsState' = interactions
        /\ UNCHANGED <<timelineProgressRef, timelineDraggingRef>>
        /\ UNCHANGED <<callbackVars, gesture, timelineProgress, bgLoaded, gpuVars,
                       loopVars>>
        /\ UNCHANGED <<time, hoveredPlanet, drawnRings, drawnPlanets, drawnShips,
                       frameSteps, mouseX, mouseY>>
        /\ UNCHANGED <<sizeVars, dragVars, cameraVars, toggleVars>>

\* the App's effect on new records, no submit being involved
Seed(interactions, rnd, srnd, range) ==
    /\ Shown(interactions, rnd, srnd, range)
    /\ lastOp' = "setInteractions"
    /\ UNCHANGED <<loading, submits>>

\* setInteractions
SetInteractions(interactions, rnd, srnd) == Seed(interactions, rnd, srnd, timelineRange)

\* the App's timeline tick: state.timelineProgress = timelineProgressRef.current
SetTimelineProgress(progress) ==
    /\ timelineProgress' = progress
    /\ timelineProgressRef' = progress
    /\ lastOp' = "setTimelineProgress"
    /\ UNCHANGED <<timelineDraggingRef, interactionsState, submits>>
    /\ UNCHANGED <<callbackVars, gesture, timelineRange, flagVars, gpuVars, loopVars,
                   mouseX, mouseY>>
    /\ UNCHANGED <<sceneVars, sizeVars, dragVars, cameraVars, toggleVars>>

\* the wheel listener of setupInteraction
Wheel(zoomIn) ==
    /\ zoom' = WheelZoom(zoom, zoomIn)
    /\ lastOp' = "wheel"
    /\ UNCHANGED <<callbackVars, gesture, timelineVars, flagVars, gpuVars, loopVars>>
    /\ UNCHANGED <<tiltX, rotationY, mouseX, mouseY>>
    /\ UNCHANGED <<sceneVars, sizeVars, dragVars, toggleVars>>
    /\ UNCHANGED appVars

\* the mousedown listener of setupInteraction
MouseDown(button, x, y) ==
    /\ IF button # 0
       THEN UNCHANGED dragVars
       ELSE /\ isDragging' = TRUE
            /\ didDrag' = FALSE
            /\ dragStartX' = x
            /\ dragStartY' = y
            /\ dragStartTiltX' = tiltX
            /\ dragStartRotationY' = rotationY
    /\ gesture' = IF button # 0 THEN gesture ELSE <<[x |-> x, y |-> y]>>
    /\ lastOp' = "mousedown"
    /\ UNCHANGED <<callbackVars, timelineVars, flagVars, gpuVars, loopVars>>
    /\ UNCHANGED <<mouseX, mouseY>>
    /\ UNCHANGED <<sceneVars, sizeVars, cameraVars, toggleVars>>
    /\ UNCHANGED appVars

\* a mousemove event on the window: the App's listener records the pointer, the
\* listener of setupInteraction turns the camera while a drag is active
MouseMove(x, y) ==
    /\ mouseX' = x
    /\ mouseY' = y
    /\ IF isDragging
       THEN LET dx == x - dragStartX
                dy == y - dragStartY
            IN  /\ didDrag' = Strayed(didDrag, dx, dy)
                /\ rotationY' = Turned(dragStartRotationY, dx)
                /\ tiltX' = Turned(dragStartTiltX, dy)
       ELSE UNCHANGED <<didDrag, rotationY, tiltX>>
    /\ gesture' = IF gesture = <<>> THEN gesture ELSE Append(gesture, [x |-> x, y |-> y])
    /\ lastOp' = "mousemove"
    /\ UNCHANGED <<callbackVars, timelineVars, flagVars, gpuVars, loopVars>>
    /\ UNCHANGED <<zoom, isDragging, dragStartX, dragStartY, dragStartTiltX,
                   dragStartRotationY>>
    /\ UNCHANGED <<sceneVars, sizeVars, toggleVars>>
    /\ UNCHANGED appVars

\* the mouseup listener of setupInteraction; state.onClickPlanet is the handler the
\* App's mount effect installed
MouseUp ==
    /\ clicks' = IF ClickFires(isDragging, didDrag) THEN Append(clicks, hoveredPlanet)
                 ELSE clicks
    /\ isDragging' = FALSE
    /\ gesture' = <<>>
    /\ lastOp' = "mouseup"
    /\ UNCHANGED <<hovers, timelineVars, flagVars, gpuVars, loopVars>>
    /\ UNCHANGED <<didDrag, dragStartX, dragStartY, dragStartTiltX, dragStartRotationY>>
    /\ UNCHANGED <<mouseX, mouseY>>
    /\ UNCHANGED <<sceneVars, sizeVars, cameraVars, toggleVars>>
    /\ UNCHANGED appVars

\* the App's effect that syncs the disabled chains
SetDisabledChains(chains) ==
    /\ disabledChains' = chains
    /\ lastOp' = "setDisabledChains"
    /\ UNCHANGED <<callbackVars, gesture, timelineVars, flagVars, gpuVars, loopVars>>
    /\ UNCHANGED <<trailsEnabled, mouseX, mouseY>>
    /\ UNCHANGED <<sceneVars, sizeVars, dragVars, cameraVars>>
    /\ UNCHANGED appVars

\* the App's effect that syncs the trails toggle
SetTrailsEnabled(enabled) ==
    /\ trailsEnabled' = enabled
    /\ lastOp' = "setTrailsEnabled"
    /\ UNCHANGED <<callbackVars, gesture, timelineVars, flagVars, gpuVars, loopVars>>
    /\ UNCHANGED <<disabledChains, mouseX, mouseY>>
    /\ UNCHANGED <<sceneVars, sizeVars, dragVars, cameraVars>>
    /\ UNCHANGED appVars

\* what updateSize assigns on a window of w x h pixels of the given device pixel
\* ratio; the canvas hands out the context it gave createRenderer
Sized(w, h, ratio) ==
    /\ dpr' = ratio
    /\ width' = w /\ height' = h
    /\ centerX' = 5 * w /\ centerY' = 5 * h
    /\ postProcessor' = IF postProcessor # Null
                        THEN createPostProcessor(w * ratio, h * ratio)
                        ELSE postProcessor
    /\ gl' = IF postProcessor # Null THEN GlCreated(gl) ELSE gl
    /\ lastOp' = "resize"
    /\ UNCHANGED <<callbackVars, gesture, timelineVars, flagVars, offscreenCanvas,
                   loopVars>>
    /\ UNCHANGED <<mouseX, mouseY>>
    /\ UNCHANGED <<sceneVars, dragVars, toggleVars>>
    /\ UNCHANGED appVars

\* an updateSize that would put the zoom back to 1
ResizeResettingZoom(w, h) ==
    /\ Sized(w, h, dpr)
    /\ zoom' = 10000
    /\ UNCHANGED <<tiltX, rotationY>>

\* updateSize
UpdateSize(w, h, ratio) == Sized(w, h, ratio) /\ UNCHANGED cameraVars

\* the App's resize listener: updateSize on a window of w x h pixels; the listener
\* holds the records of the mount, none, and so leaves the bodies alone
Resize(w, h) == UpdateSize(w, h, dpr)

\* the App's effect that syncs the loading flag
SetLoading(flag) ==
    /\ loading' = flag
    /\ lastOp' = "setLoading"
    /\ UNCHANGED <<callbackVars, gesture, timelineVars, bgLoaded, gpuVars, loopVars,
                   mouseX, mouseY>>
    /\ UNCHANGED <<sceneVars, sizeVars, dragVars, cameraVars, toggleVars>>
    /\ UNCHANGED appVars

\* the onload handler of the background image
BgImageLoad ==
    /\ bgLoaded' = TRUE
    /\ lastOp' = "bgImageLoad"
    /\ UNCHANGED <<callbackVars, gesture, timelineVars, loading, gpuVars, loopVars,
                   mouseX, mouseY>>
    /\ UNCHANGED <<sceneVars, sizeVars, dragVars, cameraVars, toggleVars>>
    /\ UNCHANGED appVars

\* a render that would draw the grid with the background, before it zooms
RenderStepsGridFirst(background, loader, post) ==
    <<"clear">> \o (IF background THEN <<"background">> ELSE <<>>)
        \o <<"starfield", "grid", "zoom", "orbits", "sun">>
        \o (IF loader THEN <<"loader">> ELSE <<>>)
        \o <<"planets", "ships", "unzoom">>
        \o (IF post THEN <<"postprocess">> ELSE <<>>)
        \o <<"hittest">>

\* a render that would post-process without looking for a post-processor
RenderStepsPostAlways(background, loader, post) ==
    <<"clear">> \o (IF background THEN <<"background">> ELSE <<>>)
        \o <<"starfield", "zoom", "grid", "orbits", "sun">>
        \o (IF loader THEN <<"loader">> ELSE <<>>)
        \o <<"planets", "ships", "unzoom", "postprocess", "hittest">>

\* the steps of render that the flags select, in the order render runs them
RenderSteps(background, loader, post) ==
    <<"clear">> \o (IF background THEN <<"background">> ELSE <<>>)
        \o <<"starfield", "zoom", "grid", "orbits", "sun">>
        \o (IF loader THEN <<"loader">> ELSE <<>>)
        \o <<"planets", "ships", "unzoom">>
        \o (IF post THEN <<"postprocess">> ELSE <<>>)
        \o <<"hittest">>

\* the registration requestAnimationFrame hands out: one that is not in use
NewFrame(used) ==
    CHOOSE id \in 1..(Cardinality(used) + 1) :
        id \notin used /\ \A lower \in 1..(id - 1) : lower \in used

\* one run of render, by the registrations in fired (none when startRenderLoop
\* calls it); it ends by registering itself again
Render(fired, op) ==
    /\ time' = time + 1
    /\ drawnRings' = drawOrbits(planets, disabledChains)
    /\ \E dp \in {drawPlanets(planets, centerX, centerY, camera, disabledChains)} :
         /\ drawnPlanets' = dp.drawn
         /\ \E updated \in {updateShips(ships, dp.planets, centerX, centerY,
                                        trailsEnabled)} :
              /\ ships' = updated
              /\ drawnShips' = drawShips(updated, disabledChains, timelineProgress)
         /\ \E found \in {HitTest(dp.planets, mouseX, mouseY, centerX, centerY, zoom,
                                  camera, disabledChains)} :
              /\ planets' = [k \in 1..Len(dp.planets) |->
                                [dp.planets[k] EXCEPT
                                    !.hovered = HoveredFlag(dp.planets[k], found)]]
              /\ hoveredPlanet' = found
              /\ hovers' = IF HoverChanged(found, hoveredPlanet)
                           THEN Append(hovers, found) ELSE hovers
    /\ frameSteps' = RenderSteps(bgLoaded, loading, postProcessor # Null)
    /\ gl' = IF postProcessor # Null THEN applyPostProcessing(postProcessor, gl) ELSE gl
    /\ \E id \in {NewFrame((pending \ fired) \cup {animationId})} :
         /\ animationId' = id
         /\ pending' = (pending \ fired) \cup {id}
    /\ lastOp' = op
    /\ UNCHANGED <<clicks, gesture, timelineVars, flagVars, dpr, offscreenCanvas,
                   postProcessor>>
    /\ UNCHANGED <<gen, mouseX, mouseY>>
    /\ UNCHANGED <<sizeVars, dragVars, cameraVars, toggleVars>>
    /\ UNCHANGED appVars

\* a pending registration fires: the animation-frame callback
Frame == \E id \in pending : Render({id}, "frame")

\* startRenderLoop: it calls render
StartRenderLoop == Render({}, "startRenderLoop")

\* stopRenderLoop
StopRenderLoop ==
    /\ IF animationId # NoFrame
       THEN /\ pending' = pending \ {animationId}
            /\ animationId' = NoFrame
       ELSE UNCHANGED loopVars
    /\ lastOp' = "stopRenderLoop"
    /\ UNCHANGED <<callbackVars, gesture, timelineVars, flagVars, gpuVars, mouseX, mouseY>>
    /\ UNCHANGED <<sceneVars, sizeVars, dragVars, cameraVars, toggleVars>>
    /\ UNCHANGED appVars

\* the length of the timeline's cycle, in ms
CYCLE_MS == 20000

\* Math.max(0, Math.min(1, v)), in ten-thousandths
Clamp01(v) == Max2(0, Min2(10000, v))

\* the tick's advance of timelineProgressRef.current by dt ms: one cycle is taken
\* off when the sum exceeds 1
AdvanceTimeline(progress, dt) ==
    LET sum == progress + (dt * 10000) \div CYCLE_MS
    IN  IF sum > 10000 THEN sum - 10000 ELSE sum

\* what no handler of the App's timeline touches
rendererVars == <<callbackVars, gesture, timelineRange, flagVars, gpuVars, loopVars,
                  mouseX, mouseY, sceneVars, sizeVars, dragVars, cameraVars,
                  toggleVars>>

\* the App's timeline tick, dt ms after the previous one (the effect runs only
\* while there are records): it advances the progress unless the timeline is
\* being dragged, then writes it to state.timelineProgress
Tick(dt) ==
    /\ interactionsState # <<>>
    /\ \E progress \in {IF timelineDraggingRef THEN timelineProgressRef
                        ELSE AdvanceTimeline(timelineProgressRef, dt)} :
         /\ timelineProgressRef' = progress
         /\ timelineProgress' = progress
    /\ lastOp' = "tick"
    /\ UNCHANGED <<timelineDraggingRef, interactionsState, submits>>
    /\ UNCHANGED rendererVars

\* handleTimelinePointerDown, the pointer at fraction at of the track
\* ((clientX - rect.left) / rect.width, in ten-thousandths)
TimelinePointerDown(at) ==
    /\ timelineDraggingRef' = TRUE
    /\ timelineProgressRef' = Clamp01(at)
    /\ lastOp' = "timelinePointerDown"
    /\ UNCHANGED <<timelineProgress, interactionsState, submits>>
    /\ UNCHANGED rendererVars

\* handleTimelinePointerMove
TimelinePointerMove(at) ==
    /\ timelineProgressRef' = IF timelineDraggingRef THEN Clamp01(at)
                              ELSE timelineProgressRef
    /\ lastOp' = "timelinePointerMove"
    /\ UNCHANGED <<timelineProgress, timelineDraggingRef, interactionsState, submits>>
    /\ UNCHANGED rendererVars

\* handleTimelinePointerUp
TimelinePointerUp ==
    /\ timelineDraggingRef' = FALSE
    /\ lastOp' = "timelinePointerUp"
    /\ UNCHANGED <<timelineProgress, timelineProgressRef, interactionsState, submits>>
    /\ UNCHANGED rendererVars

\* the submits that are still awaiting their fetches (positions in submits)
InFlight == {k \in 1..Len(submits) : submits[k].status = "pending"}

\* handleSubmit up to its first await, for the trimmed input wallet: the list
\* shown is emptied (the renderer keeps its bodies: the effect skips an empty
\* list) and loading is set, which the loading effect copies to the renderer
Submit(wallet) ==
    /\ wallet # ""
    /\ submits' = Append(submits, [wallet |-> wallet, status |-> "pending"])
    /\ interactionsState' = <<>>
    /\ loading' = TRUE
    /\ lastOp' = "handleSubmit"
    /\ UNCHANGED <<timelineProgressRef, timelineDraggingRef>>
    /\ UNCHANGED <<callbackVars, gesture, timelineVars, bgLoaded, gpuVars, loopVars,
                   mouseX, mouseY>>
    /\ UNCHANGED <<sceneVars, sizeVars, dragVars, cameraVars, toggleVars>>

\* the earliest first interaction of the records: timelineStartDate
RECURSIVE TimelineStart(_)
TimelineStart(interactions) ==
    IF Len(interactions) = 1 THEN DateTime(interactions[1].firstInteraction)
    ELSE Min2(DateTime(interactions[1].firstInteraction),
              TimelineStart(Tail(interactions)))

\* the rest of handleSubmit k once its fetches have returned the non-empty list
\* result at time now: the list is shown, the effect hands it to the renderer
\* with the range from its earliest record to now, and loading is cleared
SubmitShown(k, result, rnd, srnd, now) ==
    /\ k \in InFlight
    /\ Shown(result, rnd, srnd, <<TimelineStart(result), now>>)
    /\ submits' = [submits EXCEPT ![k].status = "shown"]
    /\ loading' = FALSE
    /\ lastOp' = "handleSubmit"

\* the rest of handleSubmit k when a fetch failed or returned nothing: an error
\* is set, loading is cleared, the list shown stays
SubmitFailed(k) ==
    /\ k \in InFlight
    /\ submits' = [submits EXCEPT ![k].status = "failed"]
    /\ loading' = FALSE
    /\ lastOp' = "handleSubmit"
    /\ UNCHANGED <<timelineProgressRef, timelineDraggingRef, interactionsState>>
    /\ UNCHANGED <<callbackVars, gesture, timelineVars, bgLoaded, gpuVars, loopVars,
                   mouseX, mouseY>>
    /\ UNCHANGED <<sceneVars, sizeVars, dragVars, cameraVars, toggleVars>>

-----------------------------------------------------------------------------
(* Inputs *)

Rec(address, chain, tx, sent, received) ==
    [address |-> address, primaryChain |-> chain, txCount |-> tx,
     sentCount |-> sent, receivedCount |-> received]

\* the batch of three records with txCounts 10, 5, 1 on eth, base, eth
EthBaseEth ==
    <<Rec("0xa", "eth-mainnet", 10, 2, 1), Rec("0xb", "base-mainnet", 5, 1, 0),
      Rec("0xc", "eth-mainnet", 1, 0, 1)>>

\* two chains that share one orbital plane
MaticPolygon ==
    <<Rec("0xa", "matic-mainnet", 4, 1, 1), Rec("0xb", "polygon-mainnet", 4, 0, 2)>>

\* Math.random() draws, in thousandths
RandLow == 0
RandHigh == 999

\* every body of a batch draws the same two numbers
SameDraws(a, s) == [k \in 1..MaxBodies |-> [a |-> a, s |-> s]]

\* the draws of the ships, progress and speed: a ship about to wrap, one that wraps
\* after ten steps, one that does not wrap within MaxShipSteps
ShipDraws == <<[p |-> 999, v |-> RandLow], [p |-> 950, v |-> 500],
               [p |-> 0, v |-> RandHigh]>>

\* a world position as the pointer position (whole pixels) that un-zooms to it
ToScreen(w, c, z) == 10 * RoundDiv(RoundDiv((w - c) * z, 10000) + c, 10)

\* the pointer position over the projection of body k
OverBody(k) ==
    LET pt == projectOrbitPoint(planets[k].angle, planets[k].orbitRadius,
                                planets[k].planeTiltX, planets[k].planeTiltZ,
                                centerX, centerY, camera)
    IN  <<ToScreen(pt.x, centerX, zoom), ToScreen(pt.y, centerY, zoom)>>

\* the pointer position over sample i of the ring of body k
OverRing(k, i) ==
    LET pt == RingSample(planets[k], i, centerX, centerY, camera)
    IN  <<ToScreen(pt.x, centerX, zoom), ToScreen(pt.y, centerY, zoom)>>

-----------------------------------------------------------------------------
(* Specifications *)

\* an input event, counted
Input(max) == events < max /\ events' = events + 1

Init == Created(800, 600, TRUE)

-----------------------------------------------------------------------------
(* The wheel alone *)

NextInput ==
    \/ Input(MaxWheel) /\ Wheel(TRUE)
    \/ Input(MaxWheel) /\ Wheel(FALSE)

SpecInput == Init /\ [][NextInput]_vars

\* C1: after any sequence of wheel events from zoom = 1, zoom is within [0.3, 8]
C1_ZoomWithinLimits == zoom >= 3000 /\ zoom <= 80000

\* a zoom-in that the upper limit stopped
C1_Witness == lastOp = "wheel" /\ zoom = 80000 /\ events < MaxWheel

-----------------------------------------------------------------------------
(* The ships of one wallet: frames and the trails toggle *)

\* one counterparty that was sent to twice and received from once: three ships
ShipBatch == <<Rec("0xa", "eth-mainnet", 10, 2, 1)>>

\* the wallet's records arrive before the first frame
LoadShips ==
    /\ gen = 0 /\ time = 0
    /\ SetInteractions(ShipBatch, SameDraws(500, 500), ShipDraws)

NextShips ==
    \/ LoadShips /\ UNCHANGED events
    \/ Input(MaxToggles) /\ SetTrailsEnabled(~trailsEnabled)
    \/ time < MaxShipSteps /\ Frame /\ UNCHANGED events

SpecShips == Init /\ [][NextShips]_vars

\* a step that runs updateShips on the ships present
ShipStep == time' = time + 1 /\ Len(ships') = Len(ships)

\* ship k exceeds progress 1 in the step
Wraps(k) == ships[k].progress + ships[k].speed > 10000

\* C2 as stated: a ship whose progress + speed exceeds 1 has, after the step,
\* progress 0 and an empty trail
C2_WrapLeavesEmptyTrail ==
    [][ShipStep =>
        \A k \in 1..Len(ships) :
            Wraps(k) => ships'[k].progress = 0 /\ ships'[k].trail = <<>>]_vars

\* the start of ship k's curve as the update loop aims it: the centre for an
\* outbound ship, the body of index (k - 1) mod planets.length for an inbound one
CurveStart(k) ==
    IF Len(planets') = 0 THEN [x |-> ships[k].fromX, y |-> ships[k].fromY]
    ELSE IF ships[k].direction = "outbound" THEN [x |-> centerX, y |-> centerY]
    ELSE [x |-> planets'[((k - 1) % Len(planets')) + 1].x,
          y |-> planets'[((k - 1) % Len(planets')) + 1].y]

\* C2: a ship whose progress + speed exceeds 1 has, after the step, progress 0 and
\* a trail of exactly one point, the head recorded in that step at the start of
\* the curve (alpha 0.97 with trails enabled, 1 with trails disabled); the points
\* recorded before the wrap are gone
C2_WrapRestartsTrail ==
    [][ShipStep =>
        \A k \in 1..Len(ships) :
            Wraps(k) =>
                /\ ships'[k].progress = 0
                /\ ships'[k].trail =
                       <<[x |-> CurveStart(k).x, y |-> CurveStart(k).y,
                          alpha |-> IF trailsEnabled THEN 97 ELSE 100]>>]_vars

\* a ship that has just wrapped, after recording a trail of several points
C2_Witness ==
    /\ lastOp = "frame" /\ time > 10
    /\ \E k \in 1..Len(ships) : ships[k].progress = 0 /\ Len(ships[k].trail) = 1

\* the points of a trail that one more fade leaves with alpha > 0
Survivors(trail) == SelectSeq(trail, LAMBDA p : p.alpha - 3 > 0)

\* C3: with trails enabled, every point of a trail loses exactly 0.03 alpha per
\* step, a point is removed in the step in which its alpha becomes <= 0, and every
\* point left after a step has alpha > 0
C3_TrailFades ==
    [][(ShipStep /\ trailsEnabled) =>
        \A k \in 1..Len(ships) :
            LET before == IF Wraps(k) THEN <<>> ELSE ships[k].trail
                kept == Survivors(before)
                after == ships'[k].trail
            IN  /\ Len(after) = Len(kept) + 1
                /\ \A j \in 1..Len(kept) :
                       /\ after[j].alpha = kept[j].alpha - 3
                       /\ after[j].x = kept[j].x /\ after[j].y = kept[j].y
                /\ after[Len(after)].alpha = 97
                /\ \A j \in 1..Len(after) : after[j].alpha > 0]_vars

\* a trail at its full length: its oldest point has alpha 0.01, and the points
\* recorded before it have been removed
C3_Witness ==
    /\ lastOp = "frame" /\ trailsEnabled /\ time > 33
    /\ \E k \in 1..Len(ships) :
          /\ Len(ships[k].trail) = 33
          /\ ships[k].trail[1].alpha = 1
          /\ ships[k].trail[33].alpha = 97

\* the head of ship k in the step: the point of its curve, as the update loop
\* aims it, at the progress the step leaves
HeadInStep(k) ==
    HeadOf(Aim([ships[k] EXCEPT !.progress = ships'[k].progress], planets', k - 1,
               centerX, centerY))

\* C4: after a step with trails disabled every ship's trail has exactly one
\* point, the head computed in that step with alpha 1, whatever the trail held
\* before and whether or not the ship wrapped
C4_SinglePointWhenDisabled ==
    [][(ShipStep /\ ~trailsEnabled) =>
        \A k \in 1..Len(ships) :
            ships'[k].trail =
                <<[x |-> HeadInStep(k).x, y |-> HeadInStep(k).y, alpha |-> 100]>>]_vars

\* trails disabled: a ship that wrapped in the step and a ship that did not
C4_Witness ==
    /\ lastOp = "frame" /\ ~trailsEnabled /\ time > 10
    /\ \E k \in 1..Len(ships) : ships[k].progress = 0 /\ Len(ships[k].trail) = 1
    /\ \E k \in 1..Len(ships) : ships[k].progress > 0 /\ Len(ships[k].trail) = 1

-----------------------------------------------------------------------------
(* Creation and rings: window sizes, batches, chain filters and frames *)

\* window sizes: one lower than 100 / 0.42 pixels, one where 0.42 * height
\* exceeds the 500 pixels cap
CreateSizes == {<<800, 238>>, <<2560, 1300>>}

\* batches of 1 .. MaxBodies records over chains with and without a plane
ChainCycle == <<"bsc-mainnet", "linea-mainnet", "eth-mainnet">>
Wallets(n) ==
    [k \in 1..n |-> Rec(<<"0x", k>>, ChainCycle[((k - 1) % Len(ChainCycle)) + 1],
                        2 * k, k % 2, 1)]

CreateBatches == {EthBaseEth, MaticPolygon} \cup {Wallets(n) : n \in 1..MaxBodies}

CreateFilters == {{"matic-mainnet"}, {"eth-mainnet"}}

NextCreate ==
    \/ Input(MaxEvents) /\ \E s \in CreateSizes : Resize(s[1], s[2])
    \/ Input(MaxEvents) /\ \E b \in CreateBatches :
                               SetInteractions(b, SameDraws(500, 500), ShipDraws)
    \/ Input(MaxEvents) /\ \E c \in CreateFilters : SetDisabledChains(c)
    \/ time < MaxStills /\ Frame /\ UNCHANGED events

SpecCreate == Init /\ [][NextCreate]_vars

\* the records the bodies were created from
Batch == [k \in 1..Len(planets) |-> planets[k].interaction]

\* the bodies on enabled chains
EnabledBodies ==
    {k \in 1..Len(planets) : planets[k].interaction.primaryChain \notin disabledChains}

\* C6: in every frame the number of rings drawn equals the number of distinct
\* (radius to 1 decimal, planeTiltX to 3 decimals, planeTiltZ to 3 decimals)
\* triples among the bodies on enabled chains
C6_RingPerEnabledKey ==
    lastOp = "frame" =>
        Len(drawnRings) = Cardinality({RingKey(planets[k]) : k \in EnabledBodies})

RadiusAsInterpolated(i, n, h, r) ==
    (n - 1) * (r - 100 * RadScale)
        = i * (Min2(42 * h * RadDen, 500 * RadScale) - 100 * RadScale)

\* C8 as stated: right after setInteractions the body of rank i of N >= 2 has the
\* interpolated radius, radii increase strictly with rank at every canvas
\* height, and a single record gets radius 100
C8_RadiiIncreaseAtEveryHeight ==
    lastOp = "setInteractions" =>
        /\ \A k \in 1..Len(planets) :
               IF Len(planets) = 1 THEN planets[k].orbitRadius = 100 * RadScale
               ELSE RadiusAsInterpolated(k - 1, Len(planets), height,
                                         planets[k].orbitRadius)
        /\ \A j, k \in 1..Len(planets) :
               j < k => planets[j].orbitRadius < planets[k].orbitRadius

\* C8: right after setInteractions the body of rank i of N >= 2 has the
\* interpolated radius and a single record gets radius 100; radii increase
\* strictly with rank when 0.42 * height > 100 and decrease strictly with rank
\* when 0.42 * height < 100
C8_RadiiInterpolated ==
    lastOp = "setInteractions" =>
        /\ \A k \in 1..Len(planets) :
               IF Len(planets) = 1 THEN planets[k].orbitRadius = 100 * RadScale
               ELSE RadiusAsInterpolated(k - 1, Len(planets), height,
                                         planets[k].orbitRadius)
        /\ \A j, k \in 1..Len(planets) :
               j < k =>
                   /\ 42 * height > 10000 =>
                          planets[j].orbitRadius < planets[k].orbitRadius
                   /\ 42 * height < 10000 =>
                          planets[j].orbitRadius > planets[k].orbitRadius

\* a batch of MaxBodies records created on the low window: radii fall with rank
C8_Witness ==
    /\ lastOp = "setInteractions" /\ height = 238
    /\ Len(planets) = MaxBodies
    /\ planets[1].orbitRadius > planets[MaxBodies].orbitRadius

-----------------------------------------------------------------------------
(* The scene under camera drags *)

\* where a drag starts, and where the pointer is taken to
PressPoint == <<4000, 3000>>
DragPoints == {<<4020, 3010>>, <<7140, 2000>>}

Press == \E button \in {0, 2} : MouseDown(button, PressPoint[1], PressPoint[2])

Drag == \E p \in DragPoints : MouseMove(p[1], p[2])

\* the wallet's records arrive once
LoadScene ==
    /\ gen = 0
    /\ SetInteractions(EthBaseEth, SameDraws(500, RandHigh), ShipDraws)

Next ==
    \/ LoadScene /\ UNCHANGED events
    \/ Input(MaxEvents) /\ Press
    \/ Input(MaxEvents) /\ Drag
    \/ Input(MaxEvents) /\ MouseUp
    \/ Input(MaxEvents) /\ SetDisabledChains({"base-mainnet"})
    \/ time < MaxTime /\ Frame /\ UNCHANGED events

Spec == Init /\ [][Next]_vars

\* the body of the given identity
BodyOf(id) == CHOOSE k \in 1..Len(planets) : planets[k].id = id

\* body k lies where the current camera projects its current angle
ProjectedNow(k) ==
    LET pt == projectOrbitPoint(planets[k].angle, planets[k].orbitRadius,
                                planets[k].planeTiltX, planets[k].planeTiltZ,
                                centerX, centerY, camera)
    IN  planets[k].x = pt.x /\ planets[k].y = pt.y /\ planets[k].z = pt.z

\* C5: in every frame drawPlanets re-projects every body with the current camera
\* and draws the enabled bodies, each once, in non-increasing order of that
\* frame's post-camera depth
C5_DrawnFarthestFirst ==
    lastOp = "frame" =>
        /\ \A k \in 1..Len(planets) : ProjectedNow(k)
        /\ Len(drawnPlanets) = Cardinality(EnabledBodies)
        /\ {drawnPlanets[i] : i \in 1..Len(drawnPlanets)}
               = {planets[k].id : k \in EnabledBodies}
        /\ \A i, j \in 1..Len(drawnPlanets) :
               i < j => planets[BodyOf(drawnPlanets[i])].z
                            >= planets[BodyOf(drawnPlanets[j])].z

\* a second frame, the camera turned: three bodies of different depths drawn in
\* another order than the collection's
C5_Witness ==
    /\ lastOp = "frame" /\ time > 1 /\ rotationY # 0
    /\ Len(drawnPlanets) = 3
    /\ planets[BodyOf(drawnPlanets[1])].z > planets[BodyOf(drawnPlanets[2])].z
    /\ planets[BodyOf(drawnPlanets[2])].z > planets[BodyOf(drawnPlanets[3])].z
    /\ drawnPlanets # [k \in 1..3 |-> planets[k].id]

-----------------------------------------------------------------------------
(* The pointer over bodies and rings: moves, chain filters, the wheel, frames *)

\* three counterparties, the first two of which the default camera shows on top
\* of each other
HitBatch ==
    <<Rec("0xa", "avalanche-mainnet", 10, 1, 0), Rec("0xb", "base-mainnet", 10, 0, 1),
      Rec("0xc", "eth-mainnet", 1, 1, 0)>>
HitDraws == <<[a |-> 920, s |-> RandLow], [a |-> 120, s |-> RandLow],
              [a |-> 500, s |-> 500]>>

HitFilters == {{"eth-mainnet"}, {"base-mainnet"}}

PointerTargets ==
    {OverBody(k) : k \in 1..Len(planets)} \cup {OverRing(k, 20) : k \in 1..Len(planets)}

Point == \E target \in PointerTargets : MouseMove(target[1], target[2])

LoadHit ==
    /\ gen = 0
    /\ SetInteractions(HitBatch, HitDraws, ShipDraws)

NextHit ==
    \/ LoadHit /\ UNCHANGED events
    \/ Input(MaxEvents) /\ Point
    \/ Input(MaxEvents) /\ \E c \in HitFilters : SetDisabledChains(c)
    \/ Input(MaxEvents) /\ \E zoomIn \in BOOLEAN : Wheel(zoomIn)
    \/ time < MaxStills /\ Frame /\ UNCHANGED events

SpecHit == Init /\ [][NextHit]_vars

\* the pointer un-zoomed: (s - center) / zoom + center
PointerX == RoundDiv((mouseX - centerX) * 10000, zoom) + centerX
PointerY == RoundDiv((mouseY - centerY) * 10000, zoom) + centerY

\* body k lies at a distance < size + 12 from the un-zoomed pointer
InBodyRange(k) ==
    LET dx == PointerX - planets[k].x
        dy == PointerY - planets[k].y
        reach == planets[k].size + 120
    IN  dx * dx + dy * dy < reach * reach

\* a sample of the ring of body k lies at a distance < 10 / zoom from the pointer
InRingRange(k) ==
    \E i \in 0..59 :
        LET pt == projectOrbitPoint((i * TwoPi) \div 60, planets[k].orbitRadius,
                                    planets[k].planeTiltX, planets[k].planeTiltZ,
                                    centerX, centerY, camera)
            dx == PointerX - pt.x
            dy == PointerY - pt.y
            thr == RoundDiv(1000000, zoom)
        IN  dx * dx + dy * dy < thr * thr

\* C9: no frame's hit test selects a body of a disabled chain, in neither pass;
\* with no enabled body and no enabled ring sample in range the hovered body is
\* none, also when the pointer is over a disabled body
C9_DisabledNeverHovered ==
    lastOp = "frame" =>
        /\ hoveredPlanet # Null => BodyOf(hoveredPlanet) \in EnabledBodies
        /\ \A k \in 1..Len(planets) : planets[k].hovered => k \in EnabledBodies
        /\ (\A k \in EnabledBodies : ~InBodyRange(k) /\ ~InRingRange(k))
               => hoveredPlanet = Null

\* the pointer over a body of a disabled chain, nothing hovered
C9_Witness ==
    /\ lastOp = "frame" /\ hoveredPlanet = Null
    /\ \E k \in 1..Len(planets) : k \notin EnabledBodies /\ InBodyRange(k)

\* the enabled bodies in reach of the pointer
BodiesInReach == {k \in EnabledBodies : InBodyRange(k)}

\* C10: if at least one enabled body lies at distance < size + 12 from the
\* un-zoomed pointer, the hovered body is the last such body of the collection,
\* whatever the rings; a ring decides only when no body matched
C10_LastBodyInReachWins ==
    lastOp = "frame" =>
        IF BodiesInReach # {}
        THEN \E k \in BodiesInReach :
                /\ \A j \in BodiesInReach : j <= k
                /\ hoveredPlanet = planets[k].id
        ELSE hoveredPlanet # Null =>
                /\ BodyOf(hoveredPlanet) \in EnabledBodies
                /\ InRingRange(BodyOf(hoveredPlanet))

\* zoomed, two bodies in reach of the pointer: the later one is hovered
C10_Witness ==
    /\ lastOp = "frame" /\ zoom # 10000
    /\ Cardinality(BodiesInReach) = 2
    /\ hoveredPlanet # Null
    /\ \A j \in BodiesInReach : j <= BodyOf(hoveredPlanet)

-----------------------------------------------------------------------------
(* Clicks and drags: presses, moves about the press point, releases, frames *)

\* where the pointer is taken to in a gesture, relative to the press point: back
\* onto it, 3 px away on both axes, 4 px away on one
Strays == {<<0, 0>>, <<30, -30>>, <<40, 0>>}

PressHere == \E button \in {0, 2} : MouseDown(button, mouseX, mouseY)

Stray == \E d \in Strays : MouseMove(dragStartX + d[1], dragStartY + d[2])

PointAtBody ==
    /\ Len(planets) > 0
    /\ \E target \in {OverBody(1)} : MouseMove(target[1], target[2])

LoadClick ==
    /\ gen = 0
    /\ SetInteractions(ShipBatch, SameDraws(500, 500), ShipDraws)

NextClick ==
    \/ LoadClick /\ UNCHANGED events
    \/ Input(MaxGesture) /\ PointAtBody
    \/ Input(MaxGesture) /\ PressHere
    \/ Input(MaxGesture) /\ Stray
    \/ Input(MaxGesture) /\ MouseUp
    \/ time < MaxStills /\ Frame /\ UNCHANGED events

SpecClick == Init /\ [][NextClick]_vars

\* a gesture is in progress and none of its moves was more than 3 px from the
\* press point on either axis
StillGesture ==
    /\ gesture # <<>>
    /\ \A i \in 1..Len(gesture) :
           /\ Abs(gesture[i].x - gesture[1].x) <= 30
           /\ Abs(gesture[i].y - gesture[1].y) <= 30

\* C11: a mouse-up calls the click callback, once and with the recorded hovered
\* body or none, if and only if a gesture that a primary-button mouse-down began
\* is in progress and no move of it was more than 3 px from the press point on
\* either axis; a gesture that once exceeded the threshold stays a drag, and a
\* mouse-up with no gesture in progress calls nothing
C11_ClickIffStillGesture ==
    [][lastOp' = "mouseup" =>
        clicks' = IF StillGesture THEN Append(clicks, hoveredPlanet) ELSE clicks]_vars

\* a click on the hovered body
C11_Witness ==
    /\ lastOp = "mouseup" /\ ~didDrag
    /\ clicks # <<>> /\ clicks[Len(clicks)] # Null
    /\ clicks[Len(clicks)] = hoveredPlanet

-----------------------------------------------------------------------------
(* The camera under every handler: drags, the wheel, resizes, rebuilds, frames *)

Rebuild == SetInteractions(ShipBatch, SameDraws(500, 500), ShipDraws)

NextCamera ==
    \/ Input(MaxGesture) /\ Rebuild
    \/ Input(MaxGesture) /\ Press
    \/ Input(MaxGesture) /\ Drag
    \/ Input(MaxGesture) /\ MouseUp
    \/ Input(MaxGesture) /\ \E zoomIn \in BOOLEAN : Wheel(zoomIn)
    \/ Input(MaxGesture) /\ Resize(1024, 768)
    \/ time < MaxStills /\ Frame /\ UNCHANGED events

SpecCamera == Init /\ [][NextCamera]_vars

\* C12: rotationY and tiltX change only in a mouse-move while a drag is active,
\* zoom only in a wheel event; a frame, a resize, a rebuild from records, a
\* mouse-down, a mouse-up and a mouse-move with no active drag leave all three
\* unchanged
C12_CameraMovedOnlyByInput ==
    [][/\ (rotationY' # rotationY \/ tiltX' # tiltX)
              => lastOp' = "mousemove" /\ isDragging
       /\ zoom' # zoom => lastOp' = "wheel"
       /\ \/ lastOp' \in {"frame", "resize", "setInteractions", "mousedown", "mouseup"}
          \/ lastOp' = "mousemove" /\ ~isDragging
          => UNCHANGED cameraVars]_vars

\* a resize of a scene whose camera a drag has turned and the wheel has zoomed
C12_Witness ==
    /\ lastOp = "resize" /\ width = 1024
    /\ rotationY # 0 /\ tiltX # 350000 /\ zoom # 10000

-----------------------------------------------------------------------------
(* The hover callback: the pointer moved between bodies, rebuilds, frames *)

\* over the first body, over the third, over nothing
HoverTargets == {OverBody(1), OverBody(Len(planets)), <<0, 0>>}

PointAcross ==
    /\ Len(planets) > 0
    /\ \E target \in HoverTargets : MouseMove(target[1], target[2])

\* the records arrive, or arrive again
LoadHover == SetInteractions(HitBatch, HitDraws, ShipDraws)

NextHover ==
    \/ Input(MaxEvents) /\ LoadHover
    \/ Input(MaxEvents) /\ PointAcross
    \/ time < MaxTime /\ Frame /\ UNCHANGED events

SpecHover == Init /\ [][NextHover]_vars

\* the hit test of the frame just run: over the bodies as that frame moved them
FoundInFrame ==
    HitTest(planets', mouseX, mouseY, centerX, centerY, zoom, camera, disabledChains)

\* C13: a frame calls the hover callback, once and with its hit-test result,
\* exactly when that result differs from the recorded hovered body; no two
\* consecutive calls carry the same value, and after the frame hoveredPlanet is
\* the frame's hit-test result
C13_HoverCalledOnChange ==
    [][lastOp' = "frame" =>
        /\ hovers' = IF FoundInFrame # hoveredPlanet THEN Append(hovers, FoundInFrame)
                     ELSE hovers
        /\ hoveredPlanet' = FoundInFrame
        /\ \A i \in 1..(Len(hovers') - 1) : hovers'[i] # hovers'[i + 1]]_vars

\* the second call, its frame having found another body than the one recorded
C13_Witness ==
    /\ lastOp = "frame" /\ Len(hovers) = 2
    /\ hovers[1] # Null /\ hovers[2] # Null
    /\ hoveredPlanet = hovers[2]

-----------------------------------------------------------------------------
(* The ships and the bodies they were created for *)

\* the number of ships createShips makes for body b
ShipsFor(b) ==
    Min2(planets[b].interaction.sentCount, 3)
        + Min2(planets[b].interaction.receivedCount, 3)

\* the number of ships createShips makes for the first b bodies
RECURSIVE ShipsUpTo(_)
ShipsUpTo(b) == IF b = 0 THEN 0 ELSE ShipsUpTo(b - 1) + ShipsFor(b)

\* the body that ship k was created for: createShips pushes the ships body by body
OwnerOf(k) == CHOOSE b \in 1..Len(planets) : ShipsUpTo(b - 1) < k /\ k <= ShipsUpTo(b)

\* the last point of the trail of ship k, the head drawShips draws
HeadDrawn(k) == ships[k].trail[Len(ships[k].trail)]

\* C14 as stated: after every frame the body-side endpoint of each ship is the
\* projected position of the body the ship was created for, the other endpoint
\* is the origin, and the head of that frame lies on the curve between the two
C14_ShipsFollowTheirBody ==
    lastOp = "frame" =>
        \A k \in 1..Len(ships) :
            LET body == planets[OwnerOf(k)]
                aimed == IF ships[k].direction = "outbound"
                         THEN [ships[k] EXCEPT !.fromX = centerX, !.fromY = centerY,
                                               !.toX = body.x, !.toY = body.y]
                         ELSE [ships[k] EXCEPT !.fromX = body.x, !.fromY = body.y,
                                               !.toX = centerX, !.toY = centerY]
            IN  /\ ProjectedNow(OwnerOf(k))
                /\ ships[k] = aimed
                /\ ships[k].trail # <<>>
                /\ HeadDrawn(k).x = HeadOf(aimed).x
                /\ HeadDrawn(k).y = HeadOf(aimed).y

-----------------------------------------------------------------------------
(* The timeline: dated records, ranges, progress, chain filters, frames *)

\* a record with the timestamp of its first interaction
Dated(rec, iso) == rec @@ [firstInteraction |-> iso]

\* three counterparties first met before, within and after the range 100..200
DatedBatch ==
    <<Dated(Rec("0xa", "eth-mainnet", 10, 1, 1), "1970-01-01T00:00:00.050Z"),
      Dated(Rec("0xb", "base-mainnet", 5, 1, 0), "1970-01-01T00:00:00.130Z"),
      Dated(Rec("0xc", "eth-mainnet", 1, 0, 1), "1970-01-01T00:00:00.250Z")>>

\* the records arrive with no range, an empty one, or one of 100 ms
LoadDated ==
    \E range \in {Null, <<100, 100>>, <<100, 200>>} :
        Seed(DatedBatch, SameDraws(500, 500), ShipDraws, range)

NextTimeline ==
    \/ Input(MaxEvents) /\ LoadDated
    \/ Input(MaxEvents) /\ \E progress \in {0, 3000, 10000} : SetTimelineProgress(progress)
    \/ Input(MaxEvents) /\ SetDisabledChains({"eth-mainnet"})
    \/ time < MaxStills /\ Frame /\ UNCHANGED events

SpecTimeline == Init /\ [][NextTimeline]_vars

\* the ships a frame has to show
ShipsToShow ==
    {k \in 1..Len(ships) :
        /\ ships[k].chain \notin disabledChains
        /\ timelineProgress = Undefined \/ timelineProgress >= ships[k].activationTime}

\* C15: a frame draws a ship if and only if its chain is not disabled and either
\* no timeline progress is supplied or the progress is >= the ship's
\* activationTime; activationTime lies in [0, 1], is 0 when no timeline range is
\* supplied, and no frame changes it, so without a range every ship of an enabled
\* chain is drawn in every frame
C15_ShipsShownOnceActive ==
    [][lastOp' = "frame" =>
        /\ drawnShips' = ShipsToShow'
        /\ Len(ships') = Len(ships)
        /\ \A k \in 1..Len(ships) :
               /\ ships'[k].activationTime = ships[k].activationTime
               /\ ships[k].activationTime >= 0 /\ ships[k].activationTime <= 10000
               /\ timelineRange = Null => ships[k].activationTime = 0
               /\ timelineRange = Null /\ ships[k].chain \notin disabledChains
                      => k \in drawnShips']_vars

\* a frame at progress 0.3 with a range: the ships of the bodies first met before
\* the range and 0.3 into it are drawn, the ship of the body met after it is not
C15_Witness ==
    /\ lastOp = "frame" /\ timelineRange # Null /\ timelineProgress = 3000
    /\ Len(ships) = 4
    /\ ships[1].activationTime = 0 /\ ships[3].activationTime = 3000
    /\ ships[4].activationTime = 10000
    /\ drawnShips = {1, 2, 3}

-----------------------------------------------------------------------------
(* The frame's steps and the post-processor: flags, resizes, rebuilds, frames *)

\* window sizes and device pixel ratios of the resizes
RenderSizes == {<<801, 601>>, <<1, 1>>}
RenderRatios == {100, 125}

NextRender ==
    \/ Input(MaxEvents) /\ \E flag \in BOOLEAN : SetLoading(flag)
    \/ Input(MaxEvents) /\ BgImageLoad
    \/ Input(MaxEvents) /\ \E size \in RenderSizes, ratio \in RenderRatios :
                                UpdateSize(size[1], size[2], ratio)
    \/ Input(MaxEvents) /\ Rebuild
    \/ Input(MaxEvents) /\ PointAtBody
    \/ time < MaxTime /\ Frame /\ UNCHANGED events

SpecRender == Init /\ [][NextRender]_vars

\* the canvas gave createRenderer no WebGL context
InitFallback == Created(800, 600, FALSE)

SpecFallback == InitFallback /\ [][NextRender]_vars

\* C16 as stated: every frame clears, draws the background layer (parallax image,
\* starfield, grid), applies the zoom transform, draws orbit paths, sun, the
\* loading indicator only when loading is set, bodies and particles, undoes the
\* zoom transform, post-processes and hit-tests, in this order
C16_GridBeforeZoom ==
    lastOp = "frame" =>
        frameSteps = <<"clear">> \o (IF bgLoaded THEN <<"background">> ELSE <<>>)
                         \o <<"starfield", "grid", "zoom", "orbits", "sun">>
                         \o (IF loading THEN <<"loader">> ELSE <<>>)
                         \o <<"planets", "ships", "unzoom", "postprocess", "hittest">>

\* the steps of the last frame
StepsRun == {frameSteps[i] : i \in 1..Len(frameSteps)}

\* the steps of the last frame that are among the given ones, in the order run
StepsAmong(steps) == SelectSeq(frameSteps, LAMBDA step : step \in steps)

\* C16: every frame clears first, then draws the parallax image (once it is
\* loaded) and the starfield, then applies the zoom transform, then draws the
\* grid, orbit paths, sun, the loading indicator only when loading is set, bodies
\* and particles, then undoes the zoom transform, then post-processes, then
\* hit-tests; the grid is drawn after the zoom transform is applied and the
\* transform is undone before post-processing
C16_GridUnderZoom ==
    lastOp = "frame" =>
        /\ frameSteps[1] = "clear"
        /\ StepsAmong({"background", "starfield", "zoom"})
               = (IF bgLoaded THEN <<"background">> ELSE <<>>) \o <<"starfield", "zoom">>
        /\ StepsAmong({"zoom", "grid", "orbits", "sun", "planets", "ships", "unzoom"})
               = <<"zoom", "grid", "orbits", "sun", "planets", "ships", "unzoom">>
        /\ StepsAmong({"sun", "loader", "planets"})
               = <<"sun">> \o (IF loading THEN <<"loader">> ELSE <<>>) \o <<"planets">>
        /\ StepsAmong({"unzoom", "postprocess", "hittest"})
               = <<"unzoom", "postprocess", "hittest">>
        /\ Len(frameSteps) = 11 + (IF bgLoaded THEN 1 ELSE 0) + (IF loading THEN 1 ELSE 0)

\* a frame with the image loaded and loading set: all thirteen steps
C16_Witness == lastOp = "frame" /\ bgLoaded /\ loading /\ Len(frameSteps) = 13

\* C17: a renderer created without a WebGL context has no post-processor and
\* draws onto the main canvas itself; every frame of it skips the post-processing
\* step and runs the update, draw and hit-test steps, the hovered body being the
\* hit-test result
C17_FallbackSkipsPostProcessing ==
    /\ postProcessor = Null
    /\ offscreenCanvas = "canvas"
    /\ lastOp = "frame" =>
           /\ "postprocess" \notin StepsRun
           /\ {"clear", "starfield", "grid", "orbits", "sun", "planets", "ships",
               "hittest"} \subseteq StepsRun
           /\ hoveredPlanet = HitTest(planets, mouseX, mouseY, centerX, centerY, zoom,
                                      camera, disabledChains)
           /\ \A k \in 1..Len(ships) : ships[k].trail # <<>>

\* a frame without post-processor, after a resize, that moved the ships and found
\* the body under the pointer
C17_Witness ==
    /\ lastOp = "frame" /\ postProcessor = Null /\ width = 801
    /\ hoveredPlanet # Null /\ Len(ships) > 0

\* C18: at every moment from an updateSize on, so in every frame, a renderer that
\* has a post-processor has bloom targets of max(1, floor(pw / 2)) x
\* max(1, floor(ph / 2)) and depth-of-field targets of max(1, floor(pw / 4)) x
\* max(1, floor(ph / 4)), pw x ph = width * dpr x height * dpr being the pixel
\* size the last updateSize gave the canvas
C18_TargetsMatchCanvas ==
    postProcessor # Null =>
        /\ postProcessor[1] = [w |-> Max2(1, (width * dpr) \div 200),
                               h |-> Max2(1, (height * dpr) \div 200)]
        /\ postProcessor[2] = [w |-> Max2(1, (width * dpr) \div 400),
                               h |-> Max2(1, (height * dpr) \div 400)]

\* a post-processing frame after a resize to 801 x 601 at ratio 1.25, a canvas of
\* 1001.25 x 751.25 pixels
C18_Witness ==
    /\ lastOp = "frame" /\ "postprocess" \in StepsRun
    /\ width = 801 /\ height = 601 /\ dpr = 125
    /\ postProcessor = <<[w |-> 500, h |-> 375], [w |-> 250, h |-> 187]>>

-----------------------------------------------------------------------------
(* The render loop: starts, stops, frames, over a scene under the pointer *)

NextLoop ==
    \/ Input(MaxEvents) /\ time < MaxTime /\ StartRenderLoop
    \/ Input(MaxEvents) /\ StopRenderLoop
    \/ Input(MaxEvents) /\ Rebuild
    \/ Input(MaxEvents) /\ PointAtBody
    \/ time < MaxTime /\ Frame /\ UNCHANGED events

SpecLoop == Init /\ [][NextLoop]_vars

\* C19 as stated: whatever starts and frames came before, stopRenderLoop leaves
\* animationId null and no registration of render pending, and no frame runs
\* from then until startRenderLoop is called again
C19_StopEndsEveryLoop ==
    [][/\ lastOp' = "stopRenderLoop" => animationId' = NoFrame /\ pending' = {}
       /\ lastOp' = "frame" => animationId # NoFrame]_vars

-----------------------------------------------------------------------------
(* The fleet: rebuilds from batches of busy and quiet counterparties, frames *)

\* counterparties with more than three, three and no transactions a direction
BusyBatch ==
    <<Rec("0xa", "eth-mainnet", 12, 7, 5), Rec("0xb", "base-mainnet", 4, 0, 4),
      Rec("0xc", "eth-mainnet", 3, 3, 0)>>

FleetBatches == {BusyBatch, EthBaseEth, ShipBatch}

NextFleet ==
    \/ Input(MaxEvents) /\ \E b \in FleetBatches :
                               SetInteractions(b, SameDraws(500, 500), ShipDraws)
    \/ Input(MaxEvents) /\ \E s \in CreateSizes : Resize(s[1], s[2])
    \/ time < MaxStills /\ Frame /\ UNCHANGED events

SpecFleet == Init /\ [][NextFleet]_vars

\* the ships of body b: createShips pushes them body by body
FleetOf(b) == (ShipsUpTo(b - 1) + 1)..ShipsUpTo(b)

\* the ships of body b that fly in the given direction
FleetOfIn(b, direction) == {k \in FleetOf(b) : ships[k].direction = direction}

\* C20: every body has exactly min(sentCount, 3) outbound and
\* min(receivedCount, 3) inbound ships, so at most 3, 3 and 6, and there are at
\* most 6 ships per body; a rebuild leaves only bodies of the new batch and only
\* new ships, at their bodies, with empty trails
C20_ShipQuotaEachWay ==
    /\ Len(ships) = ShipsUpTo(Len(planets))
    /\ Len(ships) <= 6 * Len(planets)
    /\ \A b \in 1..Len(planets) :
           /\ Cardinality(FleetOfIn(b, "outbound"))
                  = Min2(planets[b].interaction.sentCount, 3)
           /\ Cardinality(FleetOfIn(b, "inbound"))
                  = Min2(planets[b].interaction.receivedCount, 3)
           /\ Cardinality(FleetOfIn(b, "outbound")) <= 3
           /\ Cardinality(FleetOfIn(b, "inbound")) <= 3
           /\ Cardinality(FleetOf(b)) <= 6
           /\ \A k \in FleetOf(b) : ships[k].chain = planets[b].interaction.primaryChain
    /\ lastOp = "setInteractions" =>
           /\ \A b \in 1..Len(planets) :
                  /\ planets[b].id = <<gen, b>>
                  /\ \A k \in FleetOfIn(b, "outbound") :
                         /\ ships[k].fromX = centerX /\ ships[k].fromY = centerY
                         /\ ships[k].toX = planets[b].x /\ ships[k].toY = planets[b].y
                  /\ \A k \in FleetOfIn(b, "inbound") :
                         /\ ships[k].fromX = planets[b].x /\ ships[k].fromY = planets[b].y
                         /\ ships[k].toX = centerX /\ ships[k].toY = centerY
           /\ \A k \in 1..Len(ships) : ships[k].trail = <<>>

\* a second rebuild, from the busy batch: 6, 3 and 3 ships where there were fewer
C20_Witness ==
    /\ lastOp = "setInteractions" /\ gen = 2
    /\ Len(planets) = 3 /\ planets[1].interaction.sentCount = 7
    /\ Len(ships) = 12
    /\ Cardinality(FleetOfIn(1, "outbound")) = 3
    /\ Cardinality(FleetOfIn(2, "outbound")) = 0
-----------------------------------------------------------------------------
(* The timeline's progress: records, ticks and drags of the timeline *)

\* the time between two ticks, in ms: a frame, part of a cycle, a cycle, and a
\* pause of two and a half cycles (animation frames stop in a hidden tab while
\* performance.now() goes on)
TickGaps == {16, 8000, 20000, 50000}

\* pointer positions left of the track, on it, and right of it
TrackPoints == {-2000, 3000, 14000}

NextTick ==
    \/ Input(MaxTicks) /\ LoadDated
    \/ Input(MaxTicks) /\ \E dt \in TickGaps : Tick(dt)
    \/ Input(MaxTicks) /\ \E at \in TrackPoints : TimelinePointerDown(at)
    \/ Input(MaxTicks) /\ \E at \in TrackPoints : TimelinePointerMove(at)
    \/ Input(MaxTicks) /\ TimelinePointerUp

SpecTick == Init /\ [][NextTick]_vars

\* C21: after every tick the progress written to state.timelineProgress lies in
\* [0, 1], whatever the time since the previous tick and whatever the timeline's
\* pointer events
C21_ProgressWithinUnit ==
    lastOp = "tick" => timelineProgress >= 0 /\ timelineProgress <= 10000

-----------------------------------------------------------------------------
(* Projection with the camera turned back to the identity *)

\* the chains of the plane table, and one chain that has no plane
PlaneChains ==
    <<"eth-mainnet", "base-mainnet", "bsc-mainnet", "matic-mainnet", "polygon-mainnet",
      "arbitrum-mainnet", "optimism-mainnet", "avalanche-mainnet", "fantom-mainnet",
      "linea-mainnet">>

\* the n-th batch of MaxBodies records, taken in turn from PlaneChains
PlaneBatch(n) ==
    [k \in 1..MaxBodies |->
        Rec(<<"0x", k>>, PlaneChains[((MaxBodies * (n - 1) + k - 1) % Len(PlaneChains)) + 1],
            MaxBodies + 1 - k, 1, 1)]

\* as many batches as it takes to meet every chain of PlaneChains
PlaneBatches == {PlaneBatch(n) : n \in 1..((Len(PlaneChains) + MaxBodies - 1) \div MaxBodies)}

\* the drag that takes the camera's tilt from 0.35 to 0, and another one
FlatteningDrags == {<<4000, 2300>>, <<4100, 2300>>}

NextProject ==
    \/ Input(MaxEvents) /\ gen = 0
           /\ \E b \in PlaneBatches, a \in {RandLow, 125, 500} :
                  SetInteractions(b, SameDraws(a, 500), ShipDraws)
    \/ Input(MaxEvents) /\ Press
    \/ Input(MaxEvents) /\ \E p \in FlatteningDrags : MouseMove(p[1], p[2])
    \/ time < MaxStills /\ Frame /\ UNCHANGED events

SpecProject == Init /\ [][NextProject]_vars

\* the camera {rotationY = 0, tiltX = 0}
IdentityCamera == tiltX = 0 /\ rotationY = 0

\* body k lies on the flat circle: x = centerX + radius * cos(angle),
\* y = centerY + radius * sin(angle)
OnFlatCircle(k) ==
    /\ planets[k].x = centerX + Scaled(planets[k].orbitRadius, Cos(planets[k].angle))
    /\ planets[k].y = centerY + Scaled(planets[k].orbitRadius, Sin(planets[k].angle))

\* C22 as stated: a frame under the identity camera projects every body, whatever
\* its plane, to x = centerX + radius * cos(angle), y = centerY + radius * sin(angle)
C22_IdentityCameraIsFlat ==
    (lastOp = "frame" /\ IdentityCamera) => \A k \in 1..Len(planets) : OnFlatCircle(k)

\* C22: a frame under the identity camera projects the bodies of the flat plane
\* (planeTiltX = 0 and planeTiltZ = 0, the plane of eth-mainnet) to
\* x = centerX + radius * cos(angle), y = centerY + radius * sin(angle); the
\* other planes keep their own tilt
C22_FlatPlaneIsFlat ==
    (lastOp = "frame" /\ IdentityCamera) =>
        \A k \in 1..Len(planets) :
            (planets[k].planeTiltX = 0 /\ planets[k].planeTiltZ = 0) => OnFlatCircle(k)

\* a frame under the identity camera with a body on the flat plane, off the
\* horizontal axis, and a body on a tilted plane that is not on the flat circle
C22_Witness ==
    /\ lastOp = "frame" /\ IdentityCamera
    /\ \E k \in 1..Len(planets) :
           /\ planets[k].planeTiltX = 0 /\ planets[k].planeTiltZ = 0
           /\ planets[k].y # centerY /\ planets[k].x # centerX
    /\ \E k \in 1..Len(planets) : ~OnFlatCircle(k)

-----------------------------------------------------------------------------
(* The pointer between rings: a window 300 pixels high, moves, chain filters,
   the wheel, frames *)

InitRing == Created(800, 300, TRUE)

\* three counterparties whose rings have the radii 100, 113 and 126 pixels, the
\* outer two on the flat plane
RingBatch ==
    <<Rec("0xa", "base-mainnet", 1, 1, 0), Rec("0xb", "eth-mainnet", 10, 0, 1),
      Rec("0xc", "eth-mainnet", 5, 1, 0)>>

\* sample 0 of the rings 2 and 3 lies at (centerX + 113, centerY) and
\* (centerX + 126, centerY): the pointer midway between them, on ring 1, near
\* ring 3, and away from every ring
RingTargets == {<<5195, 1500>>, <<5000, 1500>>, <<5300, 1500>>, <<4000, 1500>>}

LoadRings ==
    /\ gen = 0
    /\ SetInteractions(RingBatch, SameDraws(RandHigh, 500), ShipDraws)

NextRing ==
    \/ LoadRings /\ UNCHANGED events
    \/ Input(MaxEvents) /\ \E target \in RingTargets : MouseMove(target[1], target[2])
    \/ Input(MaxEvents) /\ \E c \in {{"eth-mainnet"}, {"base-mainnet"}} :
                               SetDisabledChains(c)
    \/ Input(MaxEvents) /\ \E zoomIn \in BOOLEAN : Wheel(zoomIn)
    \/ time < MaxStills /\ Frame /\ UNCHANGED events

SpecRing == InitRing /\ [][NextRing]_vars

\* the square of the distance from the un-zoomed pointer to sample i of ring k
SampleDistSq(k, i) ==
    LET pt == projectOrbitPoint((i * TwoPi) \div 60, planets[k].orbitRadius,
                                planets[k].planeTiltX, planets[k].planeTiltZ,
                                centerX, centerY, camera)
    IN  (PointerX - pt.x) * (PointerX - pt.x) + (PointerY - pt.y) * (PointerY - pt.y)

\* the samples of enabled rings at a distance < 10 / zoom from the pointer, each
\* with its distance
SamplesInReach ==
    LET thr == RoundDiv(1000000, zoom)
    IN  {s \in {<<k, i, SampleDistSq(k, i)>> : k \in EnabledBodies, i \in 0..59} :
            s[3] < thr * thr}

\* the bodies that own a sample closest to the pointer
ClosestOwners ==
    {s[1] : s \in {c \in SamplesInReach : \A o \in SamplesInReach : c[3] <= o[3]}}

\* C23 as stated: when no body matched, the hovered body owns the closest sample
\* in reach, and among equally close samples the last in scan order wins
C23_LastClosestSampleWins ==
    (lastOp = "frame" /\ BodiesInReach = {}) =>
        IF ClosestOwners = {} THEN hoveredPlanet = Null
        ELSE \E k \in ClosestOwners :
                /\ \A j \in ClosestOwners : j <= k
                /\ hoveredPlanet = planets[k].id

\* C23: when no body matched, each enabled body's ring is sampled at 60 angles
\* and the hovered body is the owner of the sample closest to the un-zoomed
\* pointer among the samples at distance < 10 / zoom; among equally close samples
\* the first in scan order wins; with no sample in reach the result is none
C23_FirstClosestSampleWins ==
    (lastOp = "frame" /\ BodiesInReach = {}) =>
        IF ClosestOwners = {} THEN hoveredPlanet = Null
        ELSE \E k \in ClosestOwners :
                /\ \A j \in ClosestOwners : k <= j
                /\ hoveredPlanet = planets[k].id

\* a frame with no body in reach and the pointer equally close to samples of two
\* rings
C23_Witness ==
    /\ lastOp = "frame" /\ BodiesInReach = {}
    /\ ClosestOwners = {2, 3}
    /\ hoveredPlanet = planets[2].id

-----------------------------------------------------------------------------
(* Angular speeds: batches whose bodies draw their speeds independently *)

\* every way the bodies of a batch can draw the lowest or the highest speed term
SpeedDraws == [1..MaxBodies -> {[a |-> 500, s |-> RandLow], [a |-> 500, s |-> RandHigh]}]

NextSpeed ==
    \/ Input(MaxEvents) /\ \E n \in 1..MaxBodies, rnd \in SpeedDraws :
                               SetInteractions(Wallets(n), rnd, ShipDraws)
    \/ time < MaxStills /\ Frame /\ UNCHANGED events

SpecSpeed == Init /\ [][NextSpeed]_vars

\* C24 as stated: of two bodies of a batch the one of the lower rank has the
\* larger angular speed, whatever the two random terms
C24_OuterBodiesSlower ==
    \A i, j \in 1..Len(planets) :
        i < j => planets[i].angularSpeed > planets[j].angularSpeed

\* C24: angularSpeed = (0.15 + r) / (rank + 1) with r in [0, 0.1) lies in
\* [0.15 / (rank + 1), 0.25 / (rank + 1)); of two bodies with ranks i < j the
\* inner one is the faster for every pair of random terms when
\* 3 * (j + 1) >= 5 * (i + 1), so the body of rank 0 is faster than every other
\* body; frames leave the speeds alone
C24_SlowerWhenRanksApart ==
    /\ \A k \in 1..Len(planets) :
           /\ k * planets[k].angularSpeed >= 150000 - k
           /\ k * planets[k].angularSpeed < 250000
    /\ \A i, j \in 1..Len(planets) :
           (i < j /\ 3 * j >= 5 * i) => planets[i].angularSpeed > planets[j].angularSpeed

\* the body of rank 0 is the fastest while the body of rank 2 is faster than the
\* body of rank 1
C24_Witness ==
    /\ Len(planets) >= 3
    /\ planets[1].angularSpeed > planets[3].angularSpeed
    /\ planets[3].angularSpeed > planets[2].angularSpeed

-----------------------------------------------------------------------------
(* The passes of the post-processing *)

\* a pass of program prog reading the textures reads and writing target
PassOf(prog, reads, target, axis, scale, size) ==
    [prog |-> prog,
     reads |-> [s \in 1..Len(reads) |-> GlObject(gl, reads[s])],
     writes |-> IF target = "screen" THEN <<"screen", 0>> ELSE GlObject(gl, target),
     dir |-> [axis |-> axis, scale |-> scale, size |-> size]]

\* one blur iteration between the targets a and b of size sz: horizontal a to b,
\* then vertical b to a
BlurPair(a, b, scale, sz) ==
    <<PassOf("blur", <<a>>, b, "h", scale, sz.w), PassOf("blur", <<b>>, a, "v", scale, sz.h)>>

\* C25: applyPostProcessing runs, in this order, the bright-pass from the source
\* into bloom target A; three blur iterations with the scales 1.0, 1.5, 2.0, each
\* horizontal (A to B) then vertical (B to A); the depth-of-field downsample of the
\* source into DOF target A, then horizontal (A to B) and vertical (B to A); the
\* composite to the screen reading the source, bloom A and DOF A. No pass reads
\* the target it writes
C25_PassesInOrder ==
    (lastOp = "frame" /\ postProcessor # Null) =>
        /\ gl.passes =
               <<PassOf("bright", <<"srcTex">>, "bloomA", "none", 0, 1)>>
               \o BlurPair("bloomA", "bloomB", 10, postProcessor[1])
               \o BlurPair("bloomA", "bloomB", 15, postProcessor[1])
               \o BlurPair("bloomA", "bloomB", 20, postProcessor[1])
               \o <<PassOf("blur", <<"srcTex">>, "dofA", "none", 0, 1)>>
               \o BlurPair("dofA", "dofB", 15, postProcessor[2])
               \o <<PassOf("comp", <<"srcTex", "bloomA", "dofA">>, "screen", "none", 0, 1)>>
        /\ \A p \in 1..Len(gl.passes) :
               \A s \in 1..Len(gl.passes[p].reads) :
                   gl.passes[p].reads[s] # gl.passes[p].writes

\* the second frame's post-processing, on the second post-processor of the context
\* (a resize made it)
C25_Witness ==
    /\ lastOp = "frame" /\ postProcessor # Null
    /\ gl.made = 2 /\ time = 2
    /\ Len(gl.passes) = 11

-----------------------------------------------------------------------------
(* Drags: presses, moves along paths, releases, resizes, frames *)

\* where presses happen and where the pointer is taken to: two press points, a
\* point 4 px from the first, and a point 600 px below it
DragPath == {<<4000, 3000>>, <<1000, 500>>, <<4040, 3000>>, <<4000, 9000>>}

NextDrag ==
    \/ Input(MaxGesture) /\ \E button \in {0, 2}, p \in {<<4000, 3000>>, <<1000, 500>>} :
                                MouseDown(button, p[1], p[2])
    \/ Input(MaxGesture) /\ \E p \in DragPath : MouseMove(p[1], p[2])
    \/ Input(MaxGesture) /\ MouseUp
    \/ Input(MaxGesture) /\ Resize(1024, 768)
    \/ time < MaxStills /\ Frame /\ UNCHANGED events

SpecDrag == Init /\ [][NextDrag]_vars

\* C26: a primary-button mouse-down records the pointer and the camera's
\* orientation, nothing else changes that record, and every mouse-move of a drag
\* sets rotationY = (rotationY at mouse-down) + 0.005 * (pointer x - press x) and
\* tiltX = (tiltX at mouse-down) + 0.005 * (pointer y - press y), unclamped; so the
\* orientation depends on the pointer position only, and the pointer back on the
\* press point restores the orientation of the mouse-down
C26_DragTurnsByOffset ==
    [][/\ lastOp' = "mousedown" =>
              \/ UNCHANGED dragVars
              \/ /\ isDragging'
                 /\ dragStartRotationY' = rotationY /\ dragStartTiltX' = tiltX
                 /\ gesture' = <<[x |-> dragStartX', y |-> dragStartY']>>
       /\ lastOp' # "mousedown" =>
              UNCHANGED <<dragStartX, dragStartY, dragStartRotationY, dragStartTiltX>>
       /\ (lastOp' = "mousemove" /\ isDragging) =>
              /\ rotationY' = dragStartRotationY + 500 * (mouseX' - dragStartX)
              /\ tiltX' = dragStartTiltX + 500 * (mouseY' - dragStartY)
              /\ (mouseX' = dragStartX /\ mouseY' = dragStartY) =>
                     rotationY' = dragStartRotationY /\ tiltX' = dragStartTiltX]_vars

\* a drag that went 600 px down, which tilted the camera past a quarter turn, is
\* back on its press point with the orientation of the mouse-down
C26_Witness ==
    /\ lastOp = "mousemove" /\ isDragging
    /\ Len(gesture) = 3
    /\ gesture[2].y - gesture[1].y = 6000
    /\ gesture[3] = gesture[1]
    /\ tiltX = 350000 /\ rotationY = 0

-----------------------------------------------------------------------------
(* Clicks between frames: rebuilds and chain filters while a body is hovered *)

NextStale ==
    \/ LoadClick /\ UNCHANGED events
    \/ Input(MaxGesture) /\ PointAtBody
    \/ Input(MaxGesture) /\ PressHere
    \/ Input(MaxGesture) /\ MouseUp
    \/ Input(MaxGesture) /\ Rebuild
    \/ Input(MaxGesture) /\ \E c \in {{}, {"eth-mainnet"}} : SetDisabledChains(c)
    \/ time < MaxTime /\ Frame /\ UNCHANGED events

SpecStale == Init /\ [][NextStale]_vars

\* C27: a body handed to the click callback is a member of the renderer's
\* current collection and its chain is not in the current disabled set
C27_ClickedBodyIsCurrent ==
    [][clicks' # clicks =>
          LET body == clicks'[Len(clicks')]
          IN  body # Null =>
                  \E k \in 1..Len(planets) :
                      /\ planets[k].id = body
                      /\ planets[k].interaction.primaryChain \notin disabledChains]_vars

-----------------------------------------------------------------------------
(* The length of the trails *)

\* C28: after every updateShips step each ship's trail is non-empty, its last
\* point is the head position computed in that step, and it holds at most 34
\* points, whatever the frames, the wraps and the trails toggles before
C28_TrailEndsAtHead ==
    [][ShipStep =>
        \A k \in 1..Len(ships) :
            LET trail == ships'[k].trail
            IN  /\ Len(trail) >= 1
                /\ Len(trail) <= 34
                /\ trail[Len(trail)].x = HeadInStep(k).x
                /\ trail[Len(trail)].y = HeadInStep(k).y]_vars

\* a trail of 34 points: the point kept while trails were disabled, with alpha
\* 0.01, and the 33 points recorded since they were enabled again
C28_Witness ==
    /\ lastOp = "frame" /\ trailsEnabled
    /\ \E k \in 1..Len(ships) :
          /\ Len(ships[k].trail) = 34
          /\ ships[k].trail[1].alpha = 1
          /\ ships[k].trail[2].alpha = 1

-----------------------------------------------------------------------------
(* The hovered flags: rebuilds, pointer moves, chain filters, the wheel, frames *)

NextFlags ==
    \/ Input(MaxEvents) /\ LoadHover
    \/ Input(MaxEvents) /\ PointAcross
    \/ Input(MaxEvents) /\ \E c \in HitFilters : SetDisabledChains(c)
    \/ Input(MaxEvents) /\ \E zoomIn \in BOOLEAN : Wheel(zoomIn)
    \/ time < MaxTime /\ Frame /\ UNCHANGED events

SpecFlags == Init /\ [][NextFlags]_vars

\* the bodies whose hovered flag is set
Flagged == {k \in 1..Len(planets) : planets[k].hovered}

\* C29: after every frame at most one body has hovered = true, and a body of the
\* current collection has hovered = true if and only if it is state.hoveredPlanet
C29_OneHoveredFlag ==
    lastOp = "frame" =>
        /\ Cardinality(Flagged) <= 1
        /\ \A k \in 1..Len(planets) :
               planets[k].hovered <=> planets[k].id = hoveredPlanet

\* the second frame hovers a body of the second batch
C29_Witness ==
    /\ lastOp = "frame" /\ time = 2 /\ gen = 2
    /\ hoveredPlanet # Null /\ hoveredPlanet[1] = 2
    /\ Cardinality(Flagged) = 1

-----------------------------------------------------------------------------
(* Submits: wallets submitted with the Enter key, fetches returning in any order *)

\* the list buildInteractions gives for each of two wallets
RecordsOf(wallet) ==
    IF wallet = "0x1"
    THEN <<Dated(Rec("0xa", "eth-mainnet", 10, 1, 1), "1970-01-01T00:00:00.050Z")>>
    ELSE <<Dated(Rec("0xb", "base-mainnet", 5, 1, 0), "1970-01-01T00:00:00.100Z"),
           Dated(Rec("0xc", "eth-mainnet", 1, 0, 1), "1970-01-01T00:00:00.130Z")>>

\* Date.now() when the effect runs
Now == DateTime("1970-01-01T00:00:00.250Z")

NextSubmit ==
    \/ Len(submits) < MaxSubmits /\ \E wallet \in {"0x1", "0x2"} : Submit(wallet)
                                 /\ UNCHANGED events
    \/ \E k \in InFlight :
           SubmitShown(k, RecordsOf(submits[k].wallet), SameDraws(500, 500), ShipDraws, Now)
           /\ UNCHANGED events
    \/ \E k \in InFlight : SubmitFailed(k) /\ UNCHANGED events
    \/ time < MaxStills /\ Frame /\ UNCHANGED events

SpecSubmit == Init /\ [][NextSubmit]_vars

\* C30: once no submit is awaiting its fetches, and the submit started last has
\* shown its list, the list shown and the bodies of the renderer are the ones
\* built for the wallet submitted last
C30_LastSubmitShown ==
    (submits # <<>> /\ InFlight = {} /\ submits[Len(submits)].status = "shown") =>
        /\ interactionsState = RecordsOf(submits[Len(submits)].wallet)
        /\ Batch = RecordsOf(submits[Len(submits)].wallet)

====
